---- MODULE Spec2Model ----
(***************************************************************************)
(* The game store of Drifting (pinia store 'game'), its composables and    *)
(* the host component that drives it.                                      *)
(*                                                                         *)
(* Units.  Times are milliseconds, as Date.now() returns them.  Vitals and *)
(* their rates are held in thousandths (100 is 100000, 0.05 is 50), so     *)
(* that toFixed(2) is a real rounding to a multiple of 10; probabilities   *)
(* are in thousandths too.  A draw of Math.random() is r / RandScale for   *)
(* an integer r in 0 .. RandScale - 1.  Time is counted from the first     *)
(* state of a behaviour, taken at a multiple of TIME_UPDATE_INTERVAL.      *)
(***************************************************************************)
EXTENDS Bags, Integers, Sequences, FiniteSets, TLC

VARIABLES
    player,             \* ref<Character | null>: id of the player character
    team,               \* ref<Character[]>
    selectedCharacter,  \* ref<Character | null>: id of the shown character
    travelDistance,     \* ref(0)
    isTraveling,        \* ref(true)
    items,              \* ref<Item[]>
    log,                \* ref<string[]>
    currentTime,        \* ref(new Date())
    isRunning,          \* ref(false)
    passersby,          \* ref<{character, expirationTime}[]>
    clock,              \* the host's wall clock, what Date.now() last returned
    nextId,             \* the ids uuidv4() has handed out are 1 .. nextId - 1
    lastTick,           \* history: what the last updateTime did to passersby
    pausedAlive,        \* history: the passersby that were unexpired when travel was last
                        \* paused, until the next travelling tick
    app,                \* src/src/App.vue: the component, its timer and the intervals of
                        \* the window
    mapView,            \* frontend MapView.vue: its refs and lets, the animation frames of
                        \* the window and its requests in flight
    teamPanel           \* frontend CharacterCard.vue (TeamPanel): its refs and its calls
                        \* in flight

vars == <<player, team, selectedCharacter, travelDistance, isTraveling, items,
          log, currentTime, isRunning, passersby, clock, nextId, lastTick, pausedAlive,
          app, mapView, teamPanel>>

\* null: no character has id 0
NULL == 0

\* undefined and null of the components: no handle is 0
NoHandle == 0

\* src/src/App.vue: before onMounted; intervals are the intervals the window
\* has scheduled, nextHandle the handle the next setInterval returns
appSetup == [mounted |-> FALSE, timer |-> NoHandle, intervals |-> {}, nextHandle |-> 1]

\* src/frontend/src/components/MapView.vue: its values and its setup

\* the requestAnimationFrame calls of a behaviour
MaxFrames == 3
\* the requests that wait for their response at one time
MaxInFlight == 2

\* the state of the store, which the frontend components do not touch
storeVars == <<player, team, selectedCharacter, travelDistance, isTraveling, items, log,
               currentTime, isRunning, passersby, clock, nextId, lastTick, pausedAlive>>

HOURS_PER_DAY == 24

\* null of a TimeStatus, of a Coordinate and of a city name
NoTime == [day |-> 0, hour |-> 0, total_hours |-> 0]
NoCoord == [x |-> -1, y |-> -1]
NoCity == ""
\* no duration in the response: move_duration_hours is not a finite number
NoDuration == -1

\* the graph of /api/map: two cities, each the neighbour of the other
Cities == {"north", "south"}
coordOf(name) == IF name = "north" THEN [x |-> 0, y |-> 0] ELSE [x |-> 4, y |-> 2]

cloneTime(t) == [day |-> t.day, hour |-> t.hour, total_hours |-> t.total_hours]

cloneCoord(c) == [x |-> c.x, y |-> c.y]

deriveTimeStatus(totalHours) ==
    LET safeTotal == IF totalHours < 0 THEN 0 ELSE totalHours
        dayIndex == safeTotal \div HOURS_PER_DAY
    IN  [day |-> dayIndex + 1, hour |-> safeTotal - dayIndex * HOURS_PER_DAY,
         total_hours |-> safeTotal]

\* the times the server reports: late on the first day, early on the second
ServerTimes == { deriveTimeStatus(22), deriveTimeStatus(26) }
\* the hours of a journey the server reports: none, 0, and 4 hours, animated
\* over 4 * REALTIME_PER_GAME_HOUR ms
MoveHours == 4
ServerDurations == { NoDuration, 0, MoveHours }
\* the time a frame callback is given, counted from simulationStartMs in
\* halves of simulationDurationMs
Halves == 0 .. 2

\* the error messages, by the place that sets them
busyMessage == "busy"
failedMessage == "failed"

\* setup: the refs and lets; frames are the callbacks the window holds,
\* nextFrame the handle of the next requestAnimationFrame, elapsed the time
\* since simulationStartMs of the last callback of the animation that runs,
\* moves the move requests and loads the number of void loadPlayer() calls
\* that wait for their response, at the position of onMounted
mapViewSetup ==
    [ loading |-> TRUE, error |-> "", graph |-> FALSE, selected |-> NoCity,
      player |-> NoCity, timeState |-> NoTime, lastTravelHours |-> NoDuration,
      displayTime |-> NoTime, isSimulating |-> FALSE, simulatedPosition |-> NoCoord,
      simulationFrame |-> NoHandle, simulationStartTotal |-> 0,
      simulationTargetTotal |-> 0, simulationFinalTime |-> NoTime,
      simulationStartCoord |-> NoCoord, simulationTargetCoord |-> NoCoord,
      frames |-> {}, nextFrame |-> 1, elapsed |-> 0, moves |-> EmptyBag, loads |-> 0,
      at |-> "setup" ]

\* src/frontend/src/components/CharacterCard.vue, TeamPanel: its setup

\* null of ref<Team | null>(null): no team has rested -1 days
NoTeam == [days |-> -1]

\* setup: the refs; calls are the handleRest calls that wait, each at the
\* function it awaits, loads the number of other loadTeam calls that wait,
\* rested the days of rest the server has granted, sent and emitted the
\* numbers of teamRest requests sent and of teamUpdated events emitted
teamPanelSetup ==
    [ team |-> NoTeam, stats |-> NoTeam, loading |-> FALSE, error |-> "", restDays |-> 1,
      resting |-> FALSE, mounted |-> FALSE, calls |-> <<>>, loads |-> 0, rested |-> 0,
      sent |-> 0, emitted |-> 0 ]

----------------------------------------------------------------------------
(* src/constants.ts *)

TIME_UPDATE_INTERVAL == 60000

SATIETY_DECREASE_RATE == 100
HYDRATION_DECREASE_RATE == 200
STAMINA_DECREASE_RATE == 300
MOOD_DECREASE_RATE == 50
STAMINA_INCREASE_RATE == 1500
MOOD_INCREASE_RATE == 100
MAX_STAT_VALUE == 100000

EVENT_TRIGGER_PROBABILITY == 350
APPLE_EVENT_PROBABILITY == 300

TEAM_SIZE == 4

MIN_AGE == 18
MAX_AGE == 60
MIN_ATTRIBUTE == 1
MAX_ATTRIBUTE == 10
WALKING_SPEED == 70
MIN_RIDING_SPEED == 100
MAX_RIDING_SPEED == 150

MIN_INITIAL_APPLES == 1
MAX_INITIAL_APPLES == 10
MIN_INITIAL_SWORDS == 1
MAX_INITIAL_SWORDS == 5
MIN_INITIAL_SHIELDS == 1
MAX_INITIAL_SHIELDS == 5

TIMER_INTERVAL == 200

(* Imported by the store from '../constants', whose revision under src/    *)
(* does not define them: the values are the model's.                       *)
MAX_TEAM_SIZE == 5
MAX_PASSERBY_COUNT == 2
PASSERBY_APPEAR_CHANCE == 100
MIN_PASSERBY_DURATION == 30000
MAX_PASSERBY_DURATION == 60000

----------------------------------------------------------------------------
(* Bounds of the model *)

MaxSteps == 3           \* the clock runs to MaxSteps * MIN_PASSERBY_DURATION
MaxIds == 5             \* initializeGame is called while nextId <= MaxIds
MaxLog == 2             \* a line is appended to the log while Len(log) < MaxLog
LateTicks == 1999       \* the travelling ticks behind the first state of SpecLate

MaxTime == MaxSteps * MIN_PASSERBY_DURATION

----------------------------------------------------------------------------
(* src/src/i18n/index.ts: useCharacterGeneration *)

names == <<"Alice", "Bob", "Charlie", "Diana", "Edward", "Fiona", "George",
           "Hannah", "Ian", "Julia">>
genders == <<"male", "female">>

\* the resolution of Math.random() in the model
RandScale == 40000

\* Math.random() < p, for the draw r and a probability p in thousandths
below(r, p) == r * 1000 < p * RandScale

\* arr[Math.floor(Math.random() * arr.length)]
getRandomElement(arr, r) == arr[((r * Len(arr)) \div RandScale) + 1]

\* getRandomValue without + min
getRandomValue_noMin(min, max, r) == (r * (max - min + 1)) \div RandScale

\* Math.floor(Math.random() * (max - min + 1)) + min
getRandomValue(min, max, r) == ((r * (max - min + 1)) \div RandScale) + min

\* generateCharacter with isRiding: true
generateCharacter_riding(id, g) ==
    [ id           |-> id,
      name         |-> getRandomElement(names, g[1]),
      gender       |-> getRandomElement(genders, g[2]),
      age          |-> getRandomValue(MIN_AGE, MAX_AGE, g[3]),
      strength     |-> getRandomValue(MIN_ATTRIBUTE, MAX_ATTRIBUTE, g[4]),
      agility      |-> getRandomValue(MIN_ATTRIBUTE, MAX_ATTRIBUTE, g[5]),
      charisma     |-> getRandomValue(MIN_ATTRIBUTE, MAX_ATTRIBUTE, g[6]),
      intelligence |-> getRandomValue(MIN_ATTRIBUTE, MAX_ATTRIBUTE, g[7]),
      walkingSpeed |-> WALKING_SPEED,
      ridingSpeed  |-> getRandomValue(MIN_RIDING_SPEED, MAX_RIDING_SPEED, g[8]),
      isRiding     |-> TRUE,
      satiety      |-> MAX_STAT_VALUE,
      hydration    |-> MAX_STAT_VALUE,
      stamina      |-> MAX_STAT_VALUE,
      mood         |-> MAX_STAT_VALUE ]

\* g is the sequence of the eight draws generateCharacter makes, in order
generateCharacter(id, g) ==
    [ id           |-> id,
      name         |-> getRandomElement(names, g[1]),
      gender       |-> getRandomElement(genders, g[2]),
      age          |-> getRandomValue(MIN_AGE, MAX_AGE, g[3]),
      strength     |-> getRandomValue(MIN_ATTRIBUTE, MAX_ATTRIBUTE, g[4]),
      agility      |-> getRandomValue(MIN_ATTRIBUTE, MAX_ATTRIBUTE, g[5]),
      charisma     |-> getRandomValue(MIN_ATTRIBUTE, MAX_ATTRIBUTE, g[6]),
      intelligence |-> getRandomValue(MIN_ATTRIBUTE, MAX_ATTRIBUTE, g[7]),
      walkingSpeed |-> WALKING_SPEED,
      ridingSpeed  |-> getRandomValue(MIN_RIDING_SPEED, MAX_RIDING_SPEED, g[8]),
      isRiding     |-> FALSE,
      satiety      |-> MAX_STAT_VALUE,
      hydration    |-> MAX_STAT_VALUE,
      stamina      |-> MAX_STAT_VALUE,
      mood         |-> MAX_STAT_VALUE ]

\* `${...}` of a character in a log line
generateCharacterDescription(c) == <<c.name, c.gender, c.age>>

----------------------------------------------------------------------------
(* src/src/composables/useCharacterUpdate.ts *)

Max(a, b) == IF a >= b THEN a ELSE b
Min(a, b) == IF a <= b THEN a ELSE b

\* Number.prototype.toFixed(2): the decimal with two fraction digits nearest
\* to x, here the nearest multiple of 10 thousandths
toFixed2(x) ==
    IF x >= 0 THEN ((x + 5) \div 10) * 10 ELSE 0 - (((0 - x) + 5) \div 10) * 10

\* parseFloat of a decimal toFixed wrote: the number it denotes
parseFloat(s) == s

\* updateCharacterWhileTraveling without Math.max(..., 0)
updateCharacterWhileTraveling_noFloor(c) ==
    [c EXCEPT
        !.satiety   = parseFloat(toFixed2(c.satiety - SATIETY_DECREASE_RATE)),
        !.hydration = parseFloat(toFixed2(c.hydration - HYDRATION_DECREASE_RATE)),
        !.stamina   = parseFloat(toFixed2(c.stamina - STAMINA_DECREASE_RATE)),
        !.mood      = parseFloat(toFixed2(c.mood - MOOD_DECREASE_RATE))]

\* updateCharacterWhileTraveling that also wears the walking speed down
updateCharacterWhileTraveling_slows(c) ==
    [c EXCEPT
        !.satiety   = parseFloat(toFixed2(Max(c.satiety - SATIETY_DECREASE_RATE, 0))),
        !.hydration = parseFloat(toFixed2(Max(c.hydration - HYDRATION_DECREASE_RATE, 0))),
        !.stamina   = parseFloat(toFixed2(Max(c.stamina - STAMINA_DECREASE_RATE, 0))),
        !.mood      = parseFloat(toFixed2(Max(c.mood - MOOD_DECREASE_RATE, 0))),
        !.walkingSpeed = Max(c.walkingSpeed - 1, 0)]

\* updateCharacterWhileTraveling with SATIETY_DECREASE_RATE on every line
updateCharacterWhileTraveling_oneRate(c) ==
    [c EXCEPT
        !.satiety   = parseFloat(toFixed2(Max(c.satiety - SATIETY_DECREASE_RATE, 0))),
        !.hydration = parseFloat(toFixed2(Max(c.hydration - SATIETY_DECREASE_RATE, 0))),
        !.stamina   = parseFloat(toFixed2(Max(c.stamina - SATIETY_DECREASE_RATE, 0))),
        !.mood      = parseFloat(toFixed2(Max(c.mood - SATIETY_DECREASE_RATE, 0)))]

updateCharacterWhileTraveling(c) ==
    [c EXCEPT
        !.satiety   = parseFloat(toFixed2(Max(c.satiety - SATIETY_DECREASE_RATE, 0))),
        !.hydration = parseFloat(toFixed2(Max(c.hydration - HYDRATION_DECREASE_RATE, 0))),
        !.stamina   = parseFloat(toFixed2(Max(c.stamina - STAMINA_DECREASE_RATE, 0))),
        !.mood      = parseFloat(toFixed2(Max(c.mood - MOOD_DECREASE_RATE, 0)))]

\* updateCharacterWhileResting without the line of mood
updateCharacterWhileResting_staminaOnly(c) ==
    [c EXCEPT
        !.stamina = parseFloat(toFixed2(Min(c.stamina + STAMINA_INCREASE_RATE, MAX_STAT_VALUE)))]

\* updateCharacterWhileResting that also feeds the character
updateCharacterWhileResting_feeds(c) ==
    [c EXCEPT
        !.satiety = parseFloat(toFixed2(Min(c.satiety + MOOD_INCREASE_RATE, MAX_STAT_VALUE))),
        !.stamina = parseFloat(toFixed2(Min(c.stamina + STAMINA_INCREASE_RATE, MAX_STAT_VALUE))),
        !.mood    = parseFloat(toFixed2(Min(c.mood + MOOD_INCREASE_RATE, MAX_STAT_VALUE)))]

\* updateCharacterWhileResting without Math.min
updateCharacterWhileResting_noCap(c) ==
    [c EXCEPT
        !.stamina = parseFloat(toFixed2(c.stamina + STAMINA_INCREASE_RATE)),
        !.mood    = parseFloat(toFixed2(c.mood + MOOD_INCREASE_RATE))]

updateCharacterWhileResting(c) ==
    [c EXCEPT
        !.stamina = parseFloat(toFixed2(Min(c.stamina + STAMINA_INCREASE_RATE, MAX_STAT_VALUE))),
        !.mood    = parseFloat(toFixed2(Min(c.mood + MOOD_INCREASE_RATE, MAX_STAT_VALUE)))]


----------------------------------------------------------------------------
(* Items and events.  itemFactory and the events table are not under src/. *)

itemFactory(name, quantity) == [name |-> name, quantity |-> quantity]

addItem(its, name) ==
    [i \in 1 .. Len(its) |->
        IF its[i].name = name THEN [its[i] EXCEPT !.quantity = @ + 1] ELSE its[i]]

\* events[0].effect and events[1].effect: the pair <<items, log>> they leave
eventLine(name) == [kind |-> "event", about |-> <<name>>]
appleEffect(its, lg) == <<addItem(its, "Apple"), Append(lg, eventLine("Apple"))>>
swordEffect(its, lg) == <<addItem(its, "Sword"), Append(lg, eventLine("Sword"))>>

\* triggerEvents with <= in both tests
triggerEvents_inclusive(its, lg, random) ==
    IF random * 1000 <= APPLE_EVENT_PROBABILITY * RandScale THEN appleEffect(its, lg)
    ELSE IF random * 1000 <= EVENT_TRIGGER_PROBABILITY * RandScale THEN swordEffect(its, lg)
    ELSE <<its, lg>>

\* triggerEvents that fires no event once the log holds a line
triggerEvents_quietAfterFirstLine(its, lg, random) ==
    IF lg # <<>> THEN <<its, lg>>
    ELSE IF below(random, APPLE_EVENT_PROBABILITY) THEN appleEffect(its, lg)
    ELSE IF below(random, EVENT_TRIGGER_PROBABILITY) THEN swordEffect(its, lg)
    ELSE <<its, lg>>

\* triggerEvents with two independent tests, if ... if, in place of if ... else if
triggerEvents_independent(its, lg, random) ==
    LET first == IF below(random, APPLE_EVENT_PROBABILITY)
                 THEN appleEffect(its, lg) ELSE <<its, lg>>
    IN  IF below(random, EVENT_TRIGGER_PROBABILITY)
        THEN swordEffect(first[1], first[2]) ELSE first

\* useEventTrigger.triggerEvents with random the draw of Math.random()
triggerEvents(its, lg, random) ==
    IF below(random, APPLE_EVENT_PROBABILITY) THEN appleEffect(its, lg)
    ELSE IF below(random, EVENT_TRIGGER_PROBABILITY) THEN swordEffect(its, lg)
    ELSE <<its, lg>>

----------------------------------------------------------------------------
(* The store: src/unnamed/part_001, lines 1-157 (the revision with           *)
(* interactWithPasserby) *)

idsOf(ps) == {ps[i].character.id : i \in 1 .. Len(ps)}
entriesOf(ps) ==
    {[id |-> ps[i].character.id, expirationTime |-> ps[i].expirationTime] : i \in 1 .. Len(ps)}

TeamIds == {team[i].id : i \in 1 .. Len(team)}
PasserbyIds == idsOf(passersby)

\* Math.min(...xs)
MinOf(xs) == CHOOSE x \in xs : \A y \in xs : x <= y

effectiveSpeed(c) == IF c.isRiding THEN c.ridingSpeed ELSE c.walkingSpeed

\* teamSpeed over walkingSpeed only
teamSpeed_walkingOnly == MinOf({team[i].walkingSpeed : i \in 1 .. Len(team)})

teamSpeed == MinOf({effectiveSpeed(team[i]) : i \in 1 .. Len(team)})

\* mode: "travel" or "rest", the branch updateTime took; kept: the length of
\* passersby after the filter (of the untouched list when resting);
\* dropped: the entries the filter removed, as id and expirationTime
NoTick == [mode |-> "none", kept |-> 0, dropped |-> {}]

\* const player = ref(null) ... const passersby = ref([])
Init ==
    /\ player = NULL
    /\ team = <<>>
    /\ selectedCharacter = NULL
    /\ travelDistance = 0
    /\ isTraveling = TRUE
    /\ items = <<>>
    /\ log = <<>>
    /\ currentTime = 0
    /\ isRunning = FALSE
    /\ passersby = <<>>
    /\ clock = 0
    /\ nextId = 1
    /\ lastTick = NoTick
    /\ pausedAlive = {}
    /\ app = appSetup
    /\ mapView = mapViewSetup
    /\ teamPanel = teamPanelSetup

\* The host mounts before it schedules a tick or shows a button (App.vue
\* onMounted): every other operation runs on an initialized store.
initialized == player # NULL

\* team.value = [player.value] without the player
newTeam_withoutPlayer(id0, gs) ==
    [i \in 1 .. (TEAM_SIZE - 1) |-> generateCharacter(id0 + i, gs[i + 1])]

\* player.value = generateCharacter(); team.value = [player.value]; and the
\* TEAM_SIZE - 1 pushes of the loop. id0 is the id the player gets.
newTeam(id0, gs) ==
    [i \in 1 .. TEAM_SIZE |-> generateCharacter(id0 + i - 1, gs[i])]

\* the three stacks of items.value; q: the three draws
newItems(q) ==
    << itemFactory("Apple", getRandomValue(MIN_INITIAL_APPLES, MAX_INITIAL_APPLES, q[1])),
       itemFactory("Sword", getRandomValue(MIN_INITIAL_SWORDS, MAX_INITIAL_SWORDS, q[2])),
       itemFactory("Wooden Shield", getRandomValue(MIN_INITIAL_SHIELDS, MAX_INITIAL_SHIELDS, q[3])) >>

\* initializeGame that starts everything afresh: distance, log and passersby too
initializeGame_startsAfresh(gs, q) ==
    /\ nextId <= MaxIds
    /\ player' = nextId
    /\ team' = newTeam(nextId, gs)
    /\ selectedCharacter' = nextId
    /\ items' = newItems(q)
    /\ nextId' = nextId + TEAM_SIZE
    /\ travelDistance' = 0
    /\ log' = <<>>
    /\ passersby' = <<>>
    /\ UNCHANGED <<isTraveling, currentTime, isRunning, clock, lastTick, pausedAlive,
                   app, mapView, teamPanel>>

\* gs: the draws of the TEAM_SIZE generateCharacter calls; q: the three
\* item draws
initializeGame(gs, q) ==
    /\ nextId <= MaxIds
    /\ player' = nextId
    /\ team' = newTeam(nextId, gs)
    /\ selectedCharacter' = nextId
    /\ items' = newItems(q)
    /\ nextId' = nextId + TEAM_SIZE
    /\ UNCHANGED <<travelDistance, isTraveling, log, currentTime, isRunning, passersby, clock,
                   lastTick, pausedAlive,
                   app, mapView, teamPanel>>

\* selectCharacter that clears the selection when the character is already
\* selected
selectCharacter_togglesOff(id) ==
    /\ initialized
    /\ selectedCharacter' = IF selectedCharacter = id THEN NULL ELSE id
    /\ UNCHANGED <<player, team, travelDistance, isTraveling, items, log, currentTime,
                   isRunning, passersby, clock, nextId, lastTick, pausedAlive,
                   app, mapView, teamPanel>>

selectCharacter(id) ==
    /\ initialized
    /\ selectedCharacter' = id
    /\ UNCHANGED <<player, team, travelDistance, isTraveling, items, log, currentTime,
                   isRunning, passersby, clock, nextId, lastTick, pausedAlive,
                   app, mapView, teamPanel>>

\* the filter with now <= p.expirationTime
filterExpired_keepsDue(ps, now) == SelectSeq(ps, LAMBDA p : now <= p.expirationTime)

\* passersby.value.filter(p => now < p.expirationTime)
filterExpired(ps, now) == SelectSeq(ps, LAMBDA p : now < p.expirationTime)

\* the spawn test with length <= MAX_PASSERBY_COUNT
spawns_atMaximum(kept, rSpawn) ==
    Len(kept) <= MAX_PASSERBY_COUNT /\ below(rSpawn, PASSERBY_APPEAR_CHANCE)

\* the spawn test of handlePassersby; Math.random() is drawn only when the
\* count is below the maximum
spawns(kept, rSpawn) ==
    Len(kept) < MAX_PASSERBY_COUNT /\ below(rSpawn, PASSERBY_APPEAR_CHANCE)

\* handlePassersby reading Date.now() again, TIMER_INTERVAL after updateTime
\* captured now
handlePassersby_readsClockAgain(ps, now, rSpawn, id, g, rDur) ==
    LET later == now + TIMER_INTERVAL
        kept == filterExpired(ps, later)
    IN  IF spawns(kept, rSpawn)
        THEN Append(kept,
                 [ character      |-> generateCharacter(id, g),
                   expirationTime |-> later + getRandomValue(MIN_PASSERBY_DURATION,
                                                             MAX_PASSERBY_DURATION, rDur) ])
        ELSE kept

\* handlePassersby that also runs the travel decay on the passersby it keeps
handlePassersby_decaysKept(ps, now, rSpawn, id, g, rDur) ==
    LET left == filterExpired(ps, now)
        kept == [i \in 1 .. Len(left) |->
                    [left[i] EXCEPT !.character = updateCharacterWhileTraveling(@)]]
    IN  IF spawns(kept, rSpawn)
        THEN Append(kept,
                 [ character      |-> generateCharacter(id, g),
                   expirationTime |-> now + getRandomValue(MIN_PASSERBY_DURATION,
                                                           MAX_PASSERBY_DURATION, rDur) ])
        ELSE kept

\* handlePassersby giving the new character the id handed out last, in place
\* of one of its own
handlePassersby_reusesId(ps, now, rSpawn, id, g, rDur) ==
    LET kept == filterExpired(ps, now)
    IN  IF spawns(kept, rSpawn) /\ (id - 1) \notin idsOf(kept)
        THEN Append(kept,
                 [ character      |-> generateCharacter(id - 1, g),
                   expirationTime |-> now + getRandomValue(MIN_PASSERBY_DURATION,
                                                           MAX_PASSERBY_DURATION, rDur) ])
        ELSE kept

\* handlePassersby with unshift in place of push: the new entry comes first
handlePassersby_unshift(ps, now, rSpawn, id, g, rDur) ==
    LET kept == filterExpired(ps, now)
    IN  IF spawns(kept, rSpawn)
        THEN << [ character      |-> generateCharacter(id, g),
                  expirationTime |-> now + getRandomValue(MIN_PASSERBY_DURATION,
                                                          MAX_PASSERBY_DURATION, rDur) ] >>
             \o kept
        ELSE kept

\* handlePassersby(now): the list it leaves. id and g make the new character,
\* rDur is the draw of its duration.
handlePassersby(ps, now, rSpawn, id, g, rDur) ==
    LET kept == filterExpired(ps, now)
    IN  IF spawns(kept, rSpawn)
        THEN Append(kept,
                 [ character      |-> generateCharacter(id, g),
                   expirationTime |-> now + getRandomValue(MIN_PASSERBY_DURATION,
                                                           MAX_PASSERBY_DURATION, rDur) ])
        ELSE kept

\* updateTime with handlePassersby(now) after the if, so that it runs on a
\* resting tick too
updateTime_restHandlesPassersby(d, rEvent, rSpawn, g, rDur) ==
    LET now == clock + d
    IN  /\ initialized
        /\ now <= MaxTime
        /\ clock' = now
        /\ currentTime' = now
        /\ passersby' = handlePassersby(passersby, now, rSpawn, nextId, g, rDur)
        /\ nextId' = IF spawns(filterExpired(passersby, now), rSpawn)
                     THEN nextId + 1 ELSE nextId
        /\ pausedAlive' = {}
        /\ IF isTraveling
           THEN LET ev == triggerEvents(items, log, rEvent)
                IN  /\ travelDistance' = travelDistance + teamSpeed
                    /\ team' = [i \in 1 .. Len(team) |-> updateCharacterWhileTraveling(team[i])]
                    /\ items' = ev[1]
                    /\ log' = ev[2]
                    /\ lastTick' = [ mode    |-> "travel",
                                     kept    |-> Len(filterExpired(passersby, now)),
                                     dropped |-> entriesOf(passersby)
                                                    \ entriesOf(filterExpired(passersby, now)) ]
           ELSE /\ team' = [i \in 1 .. Len(team) |-> updateCharacterWhileResting(team[i])]
                /\ lastTick' = [mode |-> "rest", kept |-> Len(passersby), dropped |-> {}]
                /\ UNCHANGED <<travelDistance, items, log>>
        /\ UNCHANGED <<player, selectedCharacter, isTraveling, isRunning,
                       app, mapView, teamPanel>>

\* d: the time gone by since Date.now() was last read
updateTime(d, rEvent, rSpawn, g, rDur) ==
    LET now == clock + d
    IN  /\ initialized
        /\ now <= MaxTime
        /\ clock' = now
        /\ currentTime' = now
        /\ IF isTraveling
           THEN LET ev == triggerEvents(items, log, rEvent)
                IN  /\ travelDistance' = travelDistance + teamSpeed
                    /\ team' = [i \in 1 .. Len(team) |-> updateCharacterWhileTraveling(team[i])]
                    /\ items' = ev[1]
                    /\ log' = ev[2]
                    /\ passersby' = handlePassersby(passersby, now, rSpawn, nextId, g, rDur)
                    /\ nextId' = IF spawns(filterExpired(passersby, now), rSpawn)
                                 THEN nextId + 1 ELSE nextId
                    /\ lastTick' = [ mode    |-> "travel",
                                     kept    |-> Len(filterExpired(passersby, now)),
                                     dropped |-> entriesOf(passersby)
                                                    \ entriesOf(filterExpired(passersby, now)) ]
                    /\ pausedAlive' = {}
           ELSE /\ team' = [i \in 1 .. Len(team) |-> updateCharacterWhileResting(team[i])]
                /\ lastTick' = [mode |-> "rest", kept |-> Len(passersby), dropped |-> {}]
                /\ UNCHANGED <<travelDistance, items, log, passersby, nextId, pausedAlive>>
        /\ UNCHANGED <<player, selectedCharacter, isTraveling, isRunning,
                       app, mapView, teamPanel>>

\* the shift taken off the expiration time, -= in place of +=
pauseShift_rewinds(p, now) ==
    [p EXCEPT !.expirationTime = @ - (TIME_UPDATE_INTERVAL - (now % TIME_UPDATE_INTERVAL))]

\* the shift by the time gone by since the tick boundary, now % TIME_UPDATE_INTERVAL
pauseShift_elapsed(p, now) ==
    [p EXCEPT !.expirationTime = @ + (now % TIME_UPDATE_INTERVAL)]

\* p.expirationTime += TIME_UPDATE_INTERVAL - (now % TIME_UPDATE_INTERVAL)
pauseShift(p, now) ==
    [p EXCEPT !.expirationTime = @ + (TIME_UPDATE_INTERVAL - (now % TIME_UPDATE_INTERVAL))]

\* toggleTravelState without the test of isTraveling: the shift on every toggle
toggleTravelState_shiftsAlways(d) ==
    LET now == clock + d
    IN  /\ initialized
        /\ now <= MaxTime
        /\ isTraveling' = ~isTraveling
        /\ \A i \in 1 .. Len(passersby) : passersby[i].expirationTime <= MaxTime
        /\ clock' = now
        /\ passersby' = [i \in 1 .. Len(passersby) |-> pauseShift(passersby[i], now)]
        /\ pausedAlive' = idsOf(filterExpired(passersby, now))
        /\ UNCHANGED <<player, team, selectedCharacter, travelDistance, items, log,
                       currentTime, isRunning, nextId, lastTick,
                       app, mapView, teamPanel>>

\* toggleTravelState that always stops: isTraveling.value = false
toggleTravelState_stops(d) ==
    LET now == clock + d
    IN  /\ initialized
        /\ now <= MaxTime
        /\ isTraveling' = FALSE
        /\ \A i \in 1 .. Len(passersby) : passersby[i].expirationTime <= MaxTime
        /\ clock' = now
        /\ passersby' = [i \in 1 .. Len(passersby) |-> pauseShift(passersby[i], now)]
        /\ pausedAlive' = idsOf(filterExpired(passersby, now))
        /\ UNCHANGED <<player, team, selectedCharacter, travelDistance, items, log,
                       currentTime, isRunning, nextId, lastTick,
                       app, mapView, teamPanel>>

toggleTravelState(d) ==
    LET now == clock + d
    IN  /\ initialized
        /\ now <= MaxTime
        /\ isTraveling' = ~isTraveling
        /\ IF ~isTraveling'
           THEN /\ \A i \in 1 .. Len(passersby) :
                       passersby[i].expirationTime <= MaxTime
                /\ clock' = now
                /\ passersby' = [i \in 1 .. Len(passersby) |-> pauseShift(passersby[i], now)]
                /\ pausedAlive' = idsOf(filterExpired(passersby, now))
           ELSE UNCHANGED <<clock, passersby, pausedAlive>>
        /\ UNCHANGED <<player, team, selectedCharacter, travelDistance, items, log,
                       currentTime, isRunning, nextId, lastTick,
                       app, mapView, teamPanel>>

\* findIndex with the -1 of a miss taken for the first index
findIndex_missIsFirst(ps, id) ==
    IF \E i \in 1 .. Len(ps) : ps[i].character.id = id
    THEN CHOOSE i \in 1 .. Len(ps) :
            /\ ps[i].character.id = id
            /\ \A j \in 1 .. (i - 1) : ps[j].character.id # id
    ELSE IF Len(ps) > 0 THEN 1 ELSE 0

\* passersby.value.findIndex(p => p.character.id === character.id), 1-based,
\* 0 for -1
findIndex(ps, id) ==
    IF \E i \in 1 .. Len(ps) : ps[i].character.id = id
    THEN CHOOSE i \in 1 .. Len(ps) :
            /\ ps[i].character.id = id
            /\ \A j \in 1 .. (i - 1) : ps[j].character.id # id
    ELSE 0

\* arr.pop() in place of arr.splice(i, 1)
splice1_pop(s, i) == SubSeq(s, 1, Len(s) - 1)

\* arr.splice(0, 1) in place of arr.splice(i, 1)
splice1_first(s, i) == SubSeq(s, 2, Len(s))

\* arr.splice(i, 1)
splice1(s, i) == SubSeq(s, 1, i - 1) \o SubSeq(s, i + 1, Len(s))

talkLine(c) == [kind |-> "talk", about |-> generateCharacterDescription(c)]
attackLine(c) == [kind |-> "attack", about |-> generateCharacterDescription(c)]
joinLine(c) == [kind |-> "join", about |-> generateCharacterDescription(c)]
fullLine == [kind |-> "full", about |-> <<>>]

\* the test of the invite branch with length <= MAX_TEAM_SIZE
hasRoom_atCapacity(t) == Len(t) <= MAX_TEAM_SIZE

\* the test of the invite branch
hasRoom(t) == Len(t) < MAX_TEAM_SIZE

\* case 'talk' without its break: control falls into case 'attack'
caseTalk_fallsThrough(character, passerbyIndex) ==
    /\ log' = Append(Append(log, talkLine(character)), attackLine(character))
    /\ passersby' = splice1(passersby, passerbyIndex)
    /\ UNCHANGED team

caseTalk(character, passerbyIndex) ==
    /\ log' = Append(log, talkLine(character))
    /\ UNCHANGED <<team, passersby>>

caseAttack(character, passerbyIndex) ==
    /\ log' = Append(log, attackLine(character))
    /\ passersby' = splice1(passersby, passerbyIndex)
    /\ UNCHANGED team

\* the invite case that, when the team is full, puts the invitee in the
\* place of the last member
caseInvite_swapsWhenFull(character, passerbyIndex) ==
    IF hasRoom(team)
    THEN /\ team' = Append(team, character)
         /\ passersby' = splice1(passersby, passerbyIndex)
         /\ log' = Append(log, joinLine(character))
    ELSE /\ team' = [team EXCEPT ![Len(team)] = character]
         /\ passersby' = splice1(passersby, passerbyIndex)
         /\ log' = Append(log, joinLine(character))

\* the invite case without the splice: the invitee stays in passersby
caseInvite_keepsPasserby(character, passerbyIndex) ==
    IF hasRoom(team)
    THEN /\ team' = Append(team, character)
         /\ passersby' = passersby
         /\ log' = Append(log, joinLine(character))
    ELSE /\ log' = Append(log, fullLine)
         /\ UNCHANGED <<team, passersby>>

caseInvite(character, passerbyIndex) ==
    IF hasRoom(team)
    THEN /\ team' = Append(team, character)
         /\ passersby' = splice1(passersby, passerbyIndex)
         /\ log' = Append(log, joinLine(character))
    ELSE /\ log' = Append(log, fullLine)
         /\ UNCHANGED <<team, passersby>>

\* id: the id of the character the button passes; the character itself is
\* the passerby's own object (TravelTab.vue)
interactWithPasserby(action, id) ==
    LET passerbyIndex == findIndex(passersby, id)
    IN  /\ initialized
        /\ UNCHANGED <<player, selectedCharacter, travelDistance, isTraveling, items,
                       currentTime, isRunning, clock, nextId, lastTick, pausedAlive,
                       app, mapView, teamPanel>>
        /\ IF passerbyIndex = 0
           THEN UNCHANGED <<team, passersby, log>>
           ELSE LET character == passersby[passerbyIndex].character
                IN  /\ Len(log) < MaxLog
                    /\ CASE action = "talk" -> caseTalk(character, passerbyIndex)
                         [] action = "attack" -> caseAttack(character, passerbyIndex)
                         [] action = "invite" -> caseInvite(character, passerbyIndex)

----------------------------------------------------------------------------------------------------------------------------------------
(* The inputs the model enumerates *)

GenLo == [i \in 1 .. 8 |-> 0]
GenHi == [i \in 1 .. 8 |-> RandScale - 1]
\* the draws of the character that gets id: passersby that follow each
\* other differ
GenDraws(id) == { IF id % 2 = 0 THEN GenLo ELSE GenHi }
InitDraws == { <<GenHi, GenLo, GenLo, GenHi>> }
ItemDraws == { <<0, RandScale - 1, 0>> }
\* the least draw that is not below the probability p
drawAt(p) == ((p * RandScale) + 999) \div 1000
\* both sides of each threshold of triggerEvents; once the log holds MaxLog
\* lines, the draws that fire no event.  A draw is enumerated only where the
\* code makes it: triggerEvents and the spawn test draw on a travelling
\* tick, the duration is drawn on a spawn.
EventDraws ==
    IF isTraveling /\ Len(log) < MaxLog
    THEN { drawAt(APPLE_EVENT_PROBABILITY) - 1, drawAt(APPLE_EVENT_PROBABILITY),
           drawAt(EVENT_TRIGGER_PROBABILITY) - 1, drawAt(EVENT_TRIGGER_PROBABILITY) }
    ELSE { drawAt(EVENT_TRIGGER_PROBABILITY) }
SpawnDraws ==
    IF isTraveling
    THEN { drawAt(PASSERBY_APPEAR_CHANCE) - 1, drawAt(PASSERBY_APPEAR_CHANCE) }
    ELSE { drawAt(PASSERBY_APPEAR_CHANCE) }
DurationDraws(rSpawn) ==
    IF isTraveling /\ below(rSpawn, PASSERBY_APPEAR_CHANCE) THEN { 0, RandScale - 1 } ELSE { 0 }
TickSteps == { MIN_PASSERBY_DURATION }
ToggleSteps == { 0, MIN_PASSERBY_DURATION }
Actions == { "talk", "attack", "invite" }
\* the player and the members who joined by invitation
Selectable ==
    {team[i].id : i \in ({1} \cup ((TEAM_SIZE + 1) .. Len(team))) \cap DOMAIN team}
\* the passersby shown, the player, and the id handed out last
Targets == PasserbyIds \cup {player, nextId - 1}

Next ==
    \/ \E gs \in InitDraws, q \in ItemDraws : initializeGame(gs, q)
    \/ \E id \in Selectable : selectCharacter(id)
    \/ \E d \in TickSteps, rEvent \in EventDraws, rSpawn \in SpawnDraws, g \in GenDraws(nextId) :
          \E rDur \in DurationDraws(rSpawn) : updateTime(d, rEvent, rSpawn, g, rDur)
    \/ \E d \in ToggleSteps : toggleTravelState(d)
    \/ \E action \in Actions, id \in Targets : interactWithPasserby(action, id)

Spec == Init /\ [][Next]_vars

----------------------------------------------------------------------------
(* A late start: the store as initializeGame and LateTicks travelling ticks *)
(* leave it when no event fired and no passerby appeared in them.  Time is *)
(* counted from that state.                                                *)

\* c after k travelling ticks: k \div 2 ticks and then the rest.  The test
\* on half has TLC work half out before it goes on.
RECURSIVE travelTicks(_, _)
travelTicks(c, k) ==
    IF k = 0 THEN c
    ELSE IF k = 1 THEN updateCharacterWhileTraveling(c)
    ELSE LET half == travelTicks(c, k \div 2)
         IN  IF half.id = c.id THEN travelTicks(half, k - (k \div 2)) ELSE half

InitLate ==
    \E gs \in InitDraws, q \in ItemDraws :
        LET team0 == newTeam(1, gs)
        IN  /\ player = 1
            /\ team = [i \in 1 .. TEAM_SIZE |-> travelTicks(team0[i], LateTicks)]
            /\ selectedCharacter = 1
            /\ travelDistance =
                   LateTicks * MinOf({effectiveSpeed(team0[i]) : i \in 1 .. TEAM_SIZE})
            /\ isTraveling = TRUE
            /\ items = newItems(q)
            /\ log = <<>>
            /\ currentTime = 0
            /\ isRunning = FALSE
            /\ passersby = <<>>
            /\ clock = 0
            /\ nextId = TEAM_SIZE + 1
            /\ lastTick = NoTick
            /\ pausedAlive = {}
            /\ app = appSetup
            /\ mapView = mapViewSetup
            /\ teamPanel = teamPanelSetup

SpecLate == InitLate /\ [][Next]_vars

----------------------------------------------------------------------------
(* The pure functions on sampled inputs: updateCharacterWhileTraveling,    *)
(* updateCharacterWhileResting, teamSpeed and triggerEvents.  The store    *)
(* starts with a sampled team, in either mode, one tick before MaxTime;    *)
(* the tick applies the functions.                                         *)

\* <<satiety, hydration, stamina, mood>>: nothing left, less than one rate
\* left, exactly one rate left, a little more, the middle, one rate below
\* the maximum, less than one rate below it, a little more below it, full
VitalSamples ==
    { <<0, 0, 0, 0>>,
      <<50000, HYDRATION_DECREASE_RATE - 100, STAMINA_DECREASE_RATE - 10,
        MOOD_DECREASE_RATE - 40>>,
      <<SATIETY_DECREASE_RATE, HYDRATION_DECREASE_RATE, STAMINA_DECREASE_RATE,
        MOOD_DECREASE_RATE>>,
      <<SATIETY_DECREASE_RATE + 10, HYDRATION_DECREASE_RATE + 10,
        STAMINA_DECREASE_RATE + 10, MOOD_DECREASE_RATE + 10>>,
      <<50000, 50000, 50000, 50000>>,
      <<MAX_STAT_VALUE, MAX_STAT_VALUE, MAX_STAT_VALUE - STAMINA_INCREASE_RATE,
        MAX_STAT_VALUE - MOOD_INCREASE_RATE>>,
      <<50000, MAX_STAT_VALUE, MAX_STAT_VALUE - STAMINA_INCREASE_RATE + 10,
        MAX_STAT_VALUE - MOOD_INCREASE_RATE + 10>>,
      <<MAX_STAT_VALUE, MAX_STAT_VALUE, MAX_STAT_VALUE - STAMINA_INCREASE_RATE - 10,
        MAX_STAT_VALUE - MOOD_INCREASE_RATE - 10>>,
      <<MAX_STAT_VALUE, MAX_STAT_VALUE, MAX_STAT_VALUE, MAX_STAT_VALUE>> }

\* <<isRiding, ridingSpeed>>: a walker, and riders at the least, a middle
\* and the greatest riding speed
MountSamples ==
    { <<FALSE, MIN_RIDING_SPEED>>, <<TRUE, MIN_RIDING_SPEED>>,
      <<TRUE, 120>>, <<TRUE, MAX_RIDING_SPEED>> }

\* the character generateCharacter makes, with sampled vitals and mount
sampleCharacter(id, v, m) ==
    [generateCharacter(id, GenLo) EXCEPT
        !.satiety = v[1], !.hydration = v[2], !.stamina = v[3], !.mood = v[4],
        !.isRiding = m[1], !.ridingSpeed = m[2]]

\* one walker of each vitals sample; one and two full members of each
\* mount; two walkers and a rider
TeamSamples ==
    LET full == <<MAX_STAT_VALUE, MAX_STAT_VALUE, MAX_STAT_VALUE, MAX_STAT_VALUE>>
    IN  { <<sampleCharacter(1, v, <<FALSE, MIN_RIDING_SPEED>>)>> : v \in VitalSamples }
        \cup { <<sampleCharacter(1, full, m)>> : m \in MountSamples }
        \cup { <<sampleCharacter(1, full, m[1]), sampleCharacter(2, full, m[2])>> :
                    m \in MountSamples \X MountSamples }
        \cup { <<sampleCharacter(1, full, <<FALSE, MIN_RIDING_SPEED>>),
                  sampleCharacter(2, full, <<FALSE, MIN_RIDING_SPEED>>),
                  sampleCharacter(3, full, <<TRUE, 120>>)>> }

\* no passerby, or one made by generateCharacter that lasts until MaxTime
PasserbySamples ==
    { <<>>,
      << [character |-> generateCharacter(TEAM_SIZE, GenLo), expirationTime |-> MaxTime] >> }

InitUnit ==
    \E t \in TeamSamples, ps \in PasserbySamples, mode \in BOOLEAN, q \in ItemDraws :
        /\ player = 1
        /\ team = t
        /\ selectedCharacter = 1
        /\ travelDistance = 0
        /\ isTraveling = mode
        /\ items = newItems(q)
        /\ log = <<>>
        /\ currentTime = MaxTime - MIN_PASSERBY_DURATION
        /\ isRunning = FALSE
        /\ passersby = ps
        /\ clock = MaxTime - MIN_PASSERBY_DURATION
        /\ nextId = TEAM_SIZE + 1
        /\ lastTick = NoTick
        /\ pausedAlive = {}
        /\ app = appSetup
        /\ mapView = mapViewSetup
        /\ teamPanel = teamPanelSetup

\* the draw that stands for the random number p / 1000
drawOf(p) == (p * RandScale) \div 1000
\* the least and the greatest draw, 0.2, 0.32 and 0.9, and both sides of
\* each threshold of triggerEvents
UnitEventDraws ==
    IF isTraveling /\ Len(log) < MaxLog
    THEN { 0, drawOf(200), drawAt(APPLE_EVENT_PROBABILITY) - 1, drawAt(APPLE_EVENT_PROBABILITY),
           drawOf(320), drawAt(EVENT_TRIGGER_PROBABILITY) - 1,
           drawAt(EVENT_TRIGGER_PROBABILITY), drawOf(900), RandScale - 1 }
    ELSE { drawAt(EVENT_TRIGGER_PROBABILITY) }

NextUnit ==
    \/ \E d \in TickSteps, rEvent \in UnitEventDraws, rSpawn \in SpawnDraws, g \in GenDraws(nextId) :
          \E rDur \in DurationDraws(rSpawn) : updateTime(d, rEvent, rSpawn, g, rDur)
    \/ \E d \in ToggleSteps : toggleTravelState(d)
    \/ \E action \in Actions, id \in Targets : interactWithPasserby(action, id)

SpecUnit == InitUnit /\ [][NextUnit]_vars

----------------------------------------------------------------------------
(* generateCharacter on sampled draws: the store starts empty, and          *)
(* initializeGame and the spawn of a travelling tick make characters from  *)
(* draws at the least value, the greatest, the middle and a mix of them.   *)

GenMid == [i \in 1 .. 8 |-> RandScale \div 2]
GenMix == [i \in 1 .. 8 |-> IF i % 2 = 0 THEN RandScale - 1 ELSE RandScale \div 3]
GenSamples == { GenLo, GenHi, GenMid, GenMix }
\* the draws of the four characters of initializeGame
GenInitDraws == { <<a, b, b, a>> : a \in GenSamples, b \in GenSamples }

NextGen ==
    \/ \E gs \in GenInitDraws, q \in ItemDraws : initializeGame(gs, q)
    \/ \E d \in TickSteps, rSpawn \in SpawnDraws, g \in GenSamples :
          updateTime(d, drawAt(EVENT_TRIGGER_PROBABILITY), rSpawn, g, 0)

SpecGen == Init /\ [][NextGen]_vars

----------------------------------------------------------------------------
(* Ticks that keep firing: setInterval calls updateTime again and again,   *)
(* so a tick that stays possible is taken.  The store starts in either     *)
(* mode with a team whose vitals are within a few ticks of their bounds,   *)
(* and the clock runs to MaxTime.                                          *)

\* <<satiety, hydration, stamina, mood>>: at the floor, within one travelling
\* tick of it and within two; at the ceiling of stamina and mood, within one
\* resting tick of it and within two
LiveVitalSamples ==
    { <<0, 0, 0, 0>>,
      <<SATIETY_DECREASE_RATE - 50, HYDRATION_DECREASE_RATE - 100,
        STAMINA_DECREASE_RATE - 10, MOOD_DECREASE_RATE - 40>>,
      <<2 * SATIETY_DECREASE_RATE, 2 * HYDRATION_DECREASE_RATE,
        2 * STAMINA_DECREASE_RATE, 2 * MOOD_DECREASE_RATE>>,
      <<50000, 0, MAX_STAT_VALUE, MAX_STAT_VALUE>>,
      <<0, 50000, MAX_STAT_VALUE - STAMINA_INCREASE_RATE + 10,
        MAX_STAT_VALUE - MOOD_INCREASE_RATE + 10>>,
      <<50000, 50000, MAX_STAT_VALUE - 2 * STAMINA_INCREASE_RATE,
        MAX_STAT_VALUE - 2 * MOOD_INCREASE_RATE>> }

\* a sample is ready for a mode when two ticks in that mode take it to the
\* bound: every vital to 0 travelling, stamina and mood to the maximum resting
readyFor(mode, v) ==
    IF mode
    THEN /\ v[1] <= 2 * SATIETY_DECREASE_RATE /\ v[2] <= 2 * HYDRATION_DECREASE_RATE
         /\ v[3] <= 2 * STAMINA_DECREASE_RATE /\ v[4] <= 2 * MOOD_DECREASE_RATE
    ELSE /\ v[3] >= MAX_STAT_VALUE - 2 * STAMINA_INCREASE_RATE
         /\ v[4] >= MAX_STAT_VALUE - 2 * MOOD_INCREASE_RATE

\* teams of one and of two walkers with sampled vitals
LiveTeams(mode) ==
    LET ready == {v \in LiveVitalSamples : readyFor(mode, v)}
        walker(id, v) == sampleCharacter(id, v, <<FALSE, MIN_RIDING_SPEED>>)
    IN  { <<walker(1, v)>> : v \in ready }
        \cup { <<walker(1, v[1]), walker(2, v[2])>> : v \in ready \X ready }

InitLive ==
    \E mode \in BOOLEAN, q \in ItemDraws :
        \E t \in LiveTeams(mode) :
            /\ player = 1
            /\ team = t
            /\ selectedCharacter = 1
            /\ travelDistance = 0
            /\ isTraveling = mode
            /\ items = newItems(q)
            /\ log = <<>>
            /\ currentTime = 0
            /\ isRunning = FALSE
            /\ passersby = <<>>
            /\ clock = 0
            /\ nextId = TEAM_SIZE + 1
            /\ lastTick = NoTick
            /\ pausedAlive = {}
            /\ app = appSetup
            /\ mapView = mapViewSetup
            /\ teamPanel = teamPanelSetup

\* the call of updateTime the timer makes
timerTick ==
    \E d \in TickSteps, rEvent \in EventDraws, rSpawn \in SpawnDraws, g \in GenDraws(nextId) :
        \E rDur \in DurationDraws(rSpawn) : updateTime(d, rEvent, rSpawn, g, rDur)

NextLive ==
    \/ timerTick
    \/ \E d \in ToggleSteps : toggleTravelState(d)

SpecLive == InitLive /\ [][NextLive]_vars /\ WF_vars(timerTick)

----------------------------------------------------------------------------
(* initializeGame called on a store in use: the store starts with a        *)
(* sampled team, in either mode, with or without a passerby, and           *)
(* initializeGame runs on sampled draws before or after a tick and the     *)
(* interactions.                                                           *)

\* the three item draws: the least, the greatest, the middle, and the mix
\* of ItemDraws
ItemSamples ==
    { <<0, 0, 0>>, <<RandScale - 1, RandScale - 1, RandScale - 1>>,
      <<RandScale \div 2, RandScale \div 2, RandScale \div 2>> } \cup ItemDraws

NextStart ==
    \/ \E a \in GenSamples, q \in ItemSamples : initializeGame(<<a, GenLo, GenHi, a>>, q)
    \/ timerTick
    \/ \E action \in Actions, id \in Targets : interactWithPasserby(action, id)

SpecStart == InitUnit /\ [][NextStart]_vars

----------------------------------------------------------------------------
(* src/src/App.vue: the component that owns the timer of updateTime *)

\* the setInterval calls of a behaviour
MaxHandles == 3

\* the window schedules one more interval and returns its handle
setInterval(a) ==
    [a EXCEPT !.timer = a.nextHandle,
              !.intervals = @ \cup {a.nextHandle},
              !.nextHandle = @ + 1]

\* clearInterval of a handle that is not scheduled, or of undefined, does
\* nothing
clearInterval(a, handle) == [a EXCEPT !.intervals = @ \ {handle}]

\* onMounted: gameStore.initializeGame(), the interval, isRunning = true
onMounted(gs, q) ==
    /\ ~app.mounted
    /\ nextId <= MaxIds
    /\ app.nextHandle <= MaxHandles
    /\ player' = nextId
    /\ team' = newTeam(nextId, gs)
    /\ selectedCharacter' = nextId
    /\ items' = newItems(q)
    /\ nextId' = nextId + TEAM_SIZE
    /\ app' = [setInterval(app) EXCEPT !.mounted = TRUE]
    /\ isRunning' = TRUE
    /\ UNCHANGED <<travelDistance, isTraveling, log, currentTime, passersby, clock,
                   lastTick, pausedAlive, mapView, teamPanel>>

\* toggleTimer that schedules an interval whatever isRunning is
toggleTimer_startsAlways ==
    /\ app.mounted
    /\ app.nextHandle <= MaxHandles
    /\ app' = setInterval(app)
    /\ isRunning' = ~isRunning
    /\ UNCHANGED <<player, team, selectedCharacter, travelDistance, isTraveling, items,
                   log, currentTime, passersby, clock, nextId, lastTick, pausedAlive,
                   mapView, teamPanel>>

\* the button of the template, there while the component is mounted
toggleTimer ==
    /\ app.mounted
    /\ IF isRunning
       THEN app' = clearInterval(app, app.timer)
       ELSE /\ app.nextHandle <= MaxHandles
            /\ app' = setInterval(app)
    /\ isRunning' = ~isRunning
    /\ UNCHANGED <<player, team, selectedCharacter, travelDistance, isTraveling, items,
                   log, currentTime, passersby, clock, nextId, lastTick, pausedAlive,
                   mapView, teamPanel>>

\* a scheduled interval fires: its callback is gameStore.updateTime
intervalFires ==
    /\ app.intervals # {}
    /\ timerTick

\* onUnmounted: clearInterval(timer); isRunning stays as it is
onUnmounted ==
    /\ app.mounted
    /\ app' = [clearInterval(app, app.timer) EXCEPT !.mounted = FALSE]
    /\ UNCHANGED <<player, team, selectedCharacter, travelDistance, isTraveling, items,
                   log, currentTime, isRunning, passersby, clock, nextId, lastTick,
                   pausedAlive, mapView, teamPanel>>

NextApp ==
    \/ \E gs \in InitDraws, q \in ItemDraws : onMounted(gs, q)
    \/ toggleTimer
    \/ intervalFires
    \/ \E d \in ToggleSteps : toggleTravelState(d)
    \/ onUnmounted

SpecApp == Init /\ [][NextApp]_vars

----------------------------------------------------------------------------
(* src/frontend/src/components/MapView.vue: the map, the move request and *)
(* the animation of a journey.  The server is outside: its responses are   *)
(* drawn from small sets.                                                  *)

syncDisplayTime(m, source) ==
    IF m.isSimulating
    THEN m
    ELSE [m EXCEPT !.displayTime = IF source # NoTime THEN cloneTime(source) ELSE NoTime]

\* cancelSimulation that leaves the frame it requested with the window
cancelSimulation_leavesFrame(m) ==
    [m EXCEPT !.simulationFrame = NoHandle,
              !.isSimulating = FALSE,
              !.simulationFinalTime = NoTime,
              !.simulationStartCoord = NoCoord,
              !.simulationTargetCoord = NoCoord,
              !.simulatedPosition = NoCoord]

cancelSimulation(m) ==
    [m EXCEPT !.frames = IF m.simulationFrame # NoHandle THEN @ \ {m.simulationFrame} ELSE @,
              !.simulationFrame = NoHandle,
              !.isSimulating = FALSE,
              !.simulationFinalTime = NoTime,
              !.simulationStartCoord = NoCoord,
              !.simulationTargetCoord = NoCoord,
              !.simulatedPosition = NoCoord]

\* finishSimulation; void loadPlayer() sends its request
finishSimulation(m) ==
    LET shown == IF m.simulationFinalTime # NoTime
                 THEN [m EXCEPT !.displayTime = cloneTime(m.simulationFinalTime)]
                 ELSE IF m.timeState # NoTime
                      THEN [m EXCEPT !.displayTime = cloneTime(m.timeState)]
                      ELSE m
    IN  [cancelSimulation(shown) EXCEPT !.error = "", !.loads = @ + 1]

startSimulation(m, start, end, durationHours, startCoord, endCoord) ==
    LET c == cancelSimulation(m)
    IN  IF durationHours <= 0
        THEN [c EXCEPT !.displayTime = cloneTime(end)]
        ELSE [c EXCEPT !.isSimulating = TRUE,
                       !.simulationStartTotal = start.total_hours,
                       !.simulationTargetTotal = end.total_hours,
                       !.elapsed = 0,
                       !.simulationFinalTime = cloneTime(end),
                       !.simulationStartCoord =
                           IF startCoord # NoCoord THEN cloneCoord(startCoord) ELSE NoCoord,
                       !.simulationTargetCoord =
                           IF endCoord # NoCoord THEN cloneCoord(endCoord) ELSE NoCoord,
                       !.simulatedPosition =
                           IF startCoord # NoCoord THEN cloneCoord(startCoord) ELSE NoCoord,
                       !.displayTime = cloneTime(start),
                       !.simulationFrame = c.nextFrame,
                       !.frames = @ \cup {c.nextFrame},
                       !.nextFrame = @ + 1]

\* the callback step of startSimulation, given a time half halves of the
\* duration after simulationStartMs
step(m, half) ==
    IF ~m.isSimulating
    THEN m
    ELSE LET current == m.simulationStartTotal
                          + ((m.simulationTargetTotal - m.simulationStartTotal) * half) \div 2
             timed == [m EXCEPT !.displayTime = deriveTimeStatus(current), !.elapsed = half]
             placed == IF m.simulationStartCoord # NoCoord /\ m.simulationTargetCoord # NoCoord
                       THEN LET dx == m.simulationTargetCoord.x - m.simulationStartCoord.x
                                dy == m.simulationTargetCoord.y - m.simulationStartCoord.y
                            IN  [timed EXCEPT !.simulatedPosition =
                                    [x |-> m.simulationStartCoord.x + (dx * half) \div 2,
                                     y |-> m.simulationStartCoord.y + (dy * half) \div 2]]
                       ELSE timed
         IN  IF half >= 2
             THEN finishSimulation(placed)
             ELSE [placed EXCEPT !.simulationFrame = placed.nextFrame,
                                 !.frames = @ \cup {placed.nextFrame},
                                 !.nextFrame = @ + 1]

\* elapsed counts for the animation that runs
sinceStart(m) == IF m.isSimulating THEN m ELSE [m EXCEPT !.elapsed = 0]

\* the response of /api/player taken by loadPlayer: resp.ok false for a
\* failure, which loadPlayer swallows
loadPlayerSettled(m, resp) ==
    IF ~resp.ok
    THEN m
    ELSE LET located == [m EXCEPT !.player = resp.location]
         IN  IF resp.time # NoTime
             THEN syncDisplayTime([located EXCEPT !.timeState = resp.time], resp.time)
             ELSE located

PlayerResponses ==
    { [ok |-> FALSE, location |-> NoCity, time |-> NoTime] }
        \cup [ok : {TRUE}, location : Cities, time : ServerTimes \cup {NoTime}]

\* the responses of /api/player/move to a request for the city to
MoveResponses(to) ==
    { [ok |-> FALSE, location |-> NoCity, move_duration_hours |-> NoDuration, time |-> NoTime] }
        \cup [ok : {TRUE}, location : {to}, move_duration_hours : ServerDurations,
              time : ServerTimes \cup {NoTime}]

\* onMounted up to its first await: load() sends the request for the map
mapMounted ==
    /\ mapView.at = "setup"
    /\ mapView' = [mapView EXCEPT !.loading = TRUE, !.error = "", !.at = "load"]
    /\ UNCHANGED <<storeVars, app, teamPanel>>

\* the response of /api/map: load ends, onMounted calls loadPlayer
load(ok) ==
    /\ mapView.at = "load"
    /\ mapView' = [mapView EXCEPT !.graph = ok,
                                  !.error = IF ok THEN @ ELSE failedMessage,
                                  !.loading = FALSE,
                                  !.at = "loadPlayer"]
    /\ UNCHANGED <<storeVars, app, teamPanel>>

\* the response to the loadPlayer of onMounted; without a time, onMounted
\* calls loadTime
loadPlayer(resp) ==
    /\ mapView.at = "loadPlayer"
    /\ LET m == loadPlayerSettled(mapView, resp)
       IN  mapView' = [m EXCEPT !.at = IF m.timeState = NoTime THEN "loadTime" ELSE "mounted"]
    /\ UNCHANGED <<storeVars, app, teamPanel>>

\* the response of /api/time: ok with a time, or a failure
loadTime(ok, time) ==
    /\ mapView.at = "loadTime"
    /\ LET m == IF ok
                THEN syncDisplayTime([mapView EXCEPT !.timeState = time], time)
                ELSE mapView
       IN  mapView' = [m EXCEPT !.at = "mounted"]
    /\ UNCHANGED <<storeVars, app, teamPanel>>

\* the response to a void loadPlayer()
loadPlayerLater(resp) ==
    /\ mapView.loads > 0
    /\ mapView' = [loadPlayerSettled(mapView, resp) EXCEPT !.loads = @ - 1]
    /\ UNCHANGED <<storeVars, app, teamPanel>>

selectNode(name) ==
    /\ mapView.at \notin {"setup", "unmounted"}
    /\ mapView.graph
    /\ mapView' = [mapView EXCEPT !.selected = name]
    /\ UNCHANGED <<storeVars, app, teamPanel>>

\* moveTo that sends its request during an animation too
moveTo_sendsAnyway(name) ==
    /\ mapView.at \notin {"setup", "unmounted"}
    /\ mapView.graph /\ mapView.player # NoCity /\ name # mapView.player
    /\ BagCardinality(mapView.moves) + mapView.loads < MaxInFlight
    /\ mapView' = [mapView EXCEPT
                     !.error = "",
                     !.moves = @ (+) SetToBag({[to |-> name, originLocation |-> mapView.player,
                                               before |-> mapView.timeState]})]
    /\ UNCHANGED <<storeVars, app, teamPanel>>

\* moveTo up to its await, from a click on a neighbour of the player's city
\* in move mode: the request is sent with the origin and the time before
moveTo(name) ==
    /\ mapView.at \notin {"setup", "unmounted"}
    /\ mapView.graph /\ mapView.player # NoCity /\ name # mapView.player
    /\ IF mapView.isSimulating
       THEN mapView' = [mapView EXCEPT !.error = busyMessage]
       ELSE /\ BagCardinality(mapView.moves) + mapView.loads < MaxInFlight
            /\ mapView' = [mapView EXCEPT
                             !.error = "",
                             !.moves = @ (+) SetToBag({[to |-> name,
                                                       originLocation |-> mapView.player,
                                                       before |-> mapView.timeState]})]
    /\ UNCHANGED <<storeVars, app, teamPanel>>

\* moveTo from the response of its request on
moveToSettled(request, resp) ==
    LET left == [mapView EXCEPT !.moves = @ (-) SetToBag({request})]
    IN  IF ~resp.ok
        THEN cancelSimulation([left EXCEPT !.error = failedMessage])
        ELSE LET located == [left EXCEPT !.player = resp.location,
                                         !.selected = resp.location,
                                         !.timeState = IF resp.time # NoTime
                                                       THEN resp.time ELSE @]
                 originCoord == coordOf(request.originLocation)
                 destinationCoord == coordOf(resp.location)
                 rawDuration == resp.move_duration_hours
             IN  IF rawDuration # NoDuration /\ rawDuration > 0
                    /\ request.before # NoTime /\ located.timeState # NoTime
                 THEN startSimulation([located EXCEPT !.lastTravelHours = rawDuration],
                                      request.before, cloneTime(located.timeState),
                                      rawDuration, originCoord, destinationCoord)
                 ELSE LET synced == syncDisplayTime(
                                        [located EXCEPT !.lastTravelHours =
                                            IF rawDuration # NoDuration
                                            THEN (IF rawDuration > 0 THEN rawDuration ELSE 0)
                                            ELSE NoDuration],
                                        located.timeState)
                      IN  [synced EXCEPT !.loads = IF rawDuration # NoDuration /\ rawDuration > 0
                                                   THEN @ + 1 ELSE @]

moveResponse ==
    /\ \E request \in BagToSet(mapView.moves) : \E resp \in MoveResponses(request.to) :
          /\ mapView' = sinceStart(moveToSettled(request, resp))
          /\ mapView'.nextFrame <= MaxFrames + 1
    /\ UNCHANGED <<storeVars, app, teamPanel>>

\* the window runs a frame callback it holds
animationFrame ==
    /\ \E handle \in mapView.frames, half \in Halves :
          /\ half >= mapView.elapsed
          /\ LET m == step([mapView EXCEPT !.frames = @ \ {handle}], half)
             IN  /\ m.nextFrame <= MaxFrames + 1
                 /\ mapView' = sinceStart(m)
    /\ UNCHANGED <<storeVars, app, teamPanel>>

onBeforeUnmount ==
    /\ mapView.at \notin {"setup", "unmounted"}
    /\ mapView' = sinceStart([cancelSimulation(mapView) EXCEPT !.at = "unmounted"])
    /\ UNCHANGED <<storeVars, app, teamPanel>>

NextMap ==
    \/ mapMounted
    \/ \E ok \in BOOLEAN : load(ok)
    \/ \E resp \in PlayerResponses : loadPlayer(resp)
    \/ \E ok \in BOOLEAN, time \in ServerTimes : loadTime(ok, time)
    \/ \E resp \in PlayerResponses : loadPlayerLater(resp)
    \/ \E name \in Cities : selectNode(name)
    \/ \E name \in Cities : moveTo(name)
    \/ moveResponse
    \/ animationFrame
    \/ onBeforeUnmount

SpecMap == Init /\ [][NextMap]_vars

----------------------------------------------------------------------------
(* src/frontend/src/components/CharacterCard.vue, TeamPanel: loadTeam and *)
(* handleRest.  The server is outside: it answers or fails, and counts    *)
(* the days the team has rested.                                          *)

\* the rest requests of a behaviour
MaxRests == 2

\* the team and the stats the server holds after days days of rest
teamOf(days) == [days |-> days]

loadFailedMessage == "load failed"
restFailedMessage == "rest failed"

\* loadTeam up to its await: getTeam and getTeamStats are called
loadTeamCalled(p) == [p EXCEPT !.loading = TRUE, !.error = ""]

\* loadTeam from the settlement of Promise.all on: ok false for a rejection,
\* which loadTeam does not pass on
loadTeamSettled(p, ok) ==
    [p EXCEPT !.team = IF ok THEN teamOf(p.rested) ELSE @,
              !.stats = IF ok THEN teamOf(p.rested) ELSE @,
              !.error = IF ok THEN @ ELSE loadFailedMessage,
              !.loading = FALSE]

\* onMounted: loadTeam()
panelMounted ==
    /\ ~teamPanel.mounted
    /\ teamPanel' = [loadTeamCalled(teamPanel) EXCEPT !.mounted = TRUE, !.loads = @ + 1]
    /\ UNCHANGED <<storeVars, app, mapView>>

\* the parent calls the exposed loadTeam
loadTeam ==
    /\ teamPanel.mounted
    /\ teamPanel.loads + Len(teamPanel.calls) < MaxInFlight
    /\ teamPanel' = [loadTeamCalled(teamPanel) EXCEPT !.loads = @ + 1]
    /\ UNCHANGED <<storeVars, app, mapView>>

\* a loadTeam of onMounted or of the parent settles
loadTeamSettles(ok) ==
    /\ teamPanel.loads > 0
    /\ teamPanel' = [loadTeamSettled(teamPanel, ok) EXCEPT !.loads = @ - 1]
    /\ UNCHANGED <<storeVars, app, mapView>>

\* handleRest that does not look at resting
handleRest_reentrant ==
    /\ teamPanel.mounted
    /\ IF teamPanel.team = NoTeam
       THEN UNCHANGED teamPanel
       ELSE /\ teamPanel.sent < MaxRests
            /\ teamPanel' = [teamPanel EXCEPT !.resting = TRUE,
                                              !.error = "",
                                              !.calls = Append(@, "teamRest"),
                                              !.sent = @ + 1]
    /\ UNCHANGED <<storeVars, app, mapView>>

\* handleRest up to its first await: teamRest(restDays.value) is called
handleRest ==
    /\ teamPanel.mounted
    /\ IF teamPanel.team = NoTeam \/ teamPanel.resting
       THEN UNCHANGED teamPanel
       ELSE /\ teamPanel.sent < MaxRests
            /\ teamPanel' = [teamPanel EXCEPT !.resting = TRUE,
                                              !.error = "",
                                              !.calls = Append(@, "teamRest"),
                                              !.sent = @ + 1]
    /\ UNCHANGED <<storeVars, app, mapView>>

\* the calls without call number i
without(calls, i) == SubSeq(calls, 1, i - 1) \o SubSeq(calls, i + 1, Len(calls))

\* teamRest settles for call number i of handleRest: on success the server
\* has rested and loadTeam is called, on failure catch and finally run
teamRestSettles(i, ok) ==
    /\ i \in 1 .. Len(teamPanel.calls)
    /\ teamPanel.calls[i] = "teamRest"
    /\ teamPanel' =
         IF ok
         THEN [loadTeamCalled(teamPanel) EXCEPT !.rested = @ + teamPanel.restDays,
                                                !.calls[i] = "loadTeam"]
         ELSE [teamPanel EXCEPT !.error = restFailedMessage,
                                !.resting = FALSE,
                                !.calls = without(@, i)]
    /\ UNCHANGED <<storeVars, app, mapView>>

\* the loadTeam of call number i of handleRest settles: teamUpdated is
\* emitted and finally runs
reloadSettles(i, ok) ==
    /\ i \in 1 .. Len(teamPanel.calls)
    /\ teamPanel.calls[i] = "loadTeam"
    /\ teamPanel' = [loadTeamSettled(teamPanel, ok) EXCEPT !.emitted = @ + 1,
                                                          !.resting = FALSE,
                                                          !.calls = without(@, i)]
    /\ UNCHANGED <<storeVars, app, mapView>>

NextPanel ==
    \/ panelMounted
    \/ loadTeam
    \/ \E ok \in BOOLEAN : loadTeamSettles(ok)
    \/ handleRest
    \/ \E i \in 1 .. MaxRests, ok \in BOOLEAN : teamRestSettles(i, ok)
    \/ \E i \in 1 .. MaxRests, ok \in BOOLEAN : reloadSettles(i, ok)

SpecPanel == Init /\ [][NextPanel]_vars

----------------------------------------------------------------------------
(* Claims *)

Vitals(c) == {c.satiety, c.hydration, c.stamina, c.mood}

\* C1: each of the four vitals of every team member lies in 0 .. MAX_STAT_VALUE
\* in every state that initializeGame, ticks, toggles and interactions reach.
C1_VitalsInRange ==
    \A i \in 1 .. Len(team) : \A v \in Vitals(team[i]) : 0 <= v /\ v <= MAX_STAT_VALUE

\* C1 witness: a member whose satiety and hydration were floored at 0 by two
\* more travelling ticks, beside an invited member whose stamina a resting
\* tick capped at MAX_STAT_VALUE after a travelling tick had lowered it.
C1_Witness ==
    /\ travelDistance >= (LateTicks + 2) * WALKING_SPEED
    /\ \E i \in 1 .. Len(team) : team[i].satiety = 0 /\ team[i].hydration = 0
    /\ \E j \in 1 .. Len(team) :
          team[j].satiety < MAX_STAT_VALUE /\ team[j].stamina = MAX_STAT_VALUE

lastLine == log[Len(log)]

\* log' is log with exactly one more line, of the given kind
oneMoreLine(kind) ==
    /\ Len(log') = Len(log) + 1
    /\ SubSeq(log', 1, Len(log)) = log
    /\ log'[Len(log')].kind = kind

\* the entries of passersby other than the one of the given id, in order
others(ps, id) == SelectSeq(ps, LAMBDA p : p.character.id # id)

\* a step of updateTime: the only operation that writes currentTime, and it
\* always moves it
tickStep == currentTime' # currentTime

\* C2: the number of passersby never exceeds MAX_PASSERBY_COUNT; a passerby is
\* added only by a travelling tick, only when the entries that survive that
\* tick's expiry filter number strictly less than MAX_PASSERBY_COUNT, and
\* then exactly one is added.
C2_PasserbyCap ==
    /\ [](Len(passersby) <= MAX_PASSERBY_COUNT)
    /\ [][ (PasserbyIds' \ PasserbyIds # {}) =>
             /\ tickStep
             /\ isTraveling
             /\ Cardinality({i \in 1 .. Len(passersby) :
                                passersby[i].expirationTime > currentTime'}) < MAX_PASSERBY_COUNT
             /\ Cardinality(PasserbyIds' \ PasserbyIds) = 1 ]_vars

\* C2 witness: a travelling tick found MAX_PASSERBY_COUNT entries alive after
\* its filter, and the list still holds exactly that many.
C2_Witness ==
    /\ lastTick.mode = "travel"
    /\ lastTick.kept = MAX_PASSERBY_COUNT
    /\ Len(passersby) = MAX_PASSERBY_COUNT

\* C3: after a travelling tick at time now every passerby left expires after
\* now: each entry with expirationTime <= now, the one expiring exactly at now
\* included, is gone, and the only line the tick can add to the log is the one
\* of an event.
C3_ExpiredRemoved ==
    [][ (tickStep /\ isTraveling) =>
          /\ \A i \in 1 .. Len(passersby') : passersby'[i].expirationTime > currentTime'
          /\ \A i \in 1 .. Len(passersby) :
                passersby[i].expirationTime <= currentTime'
                    => passersby[i].character.id \notin PasserbyIds'
          /\ (log' = log \/ oneMoreLine("event")) ]_vars

\* C3 witness: the last travelling tick dropped an entry that expired exactly
\* at the tick's time, and the log is still empty.
C3_Witness ==
    /\ lastTick.mode = "travel"
    /\ \E e \in lastTick.dropped : e.expirationTime = currentTime
    /\ log = <<>>

\* C4: inviting a present passerby while the team holds MAX_TEAM_SIZE members
\* or more leaves team and passersby unchanged and appends exactly one line,
\* the one saying the team is full.
C4_InviteWhenFull ==
    [][ \A id \in PasserbyIds :
          (Len(team) >= MAX_TEAM_SIZE /\ interactWithPasserby("invite", id)) =>
              /\ team' = team
              /\ passersby' = passersby
              /\ oneMoreLine("full") ]_vars

\* C4 witness: the team holds MAX_TEAM_SIZE members, the last line of the log
\* is the refusal, and a passerby is still there.
C4_Witness ==
    /\ Len(team) = MAX_TEAM_SIZE
    /\ log # <<>> /\ lastLine.kind = "full"
    /\ passersby # <<>>

\* C5: inviting a present passerby c while the team holds fewer than
\* MAX_TEAM_SIZE members appends c as the last member (the others keep their
\* order), removes c and only c from passersby (the others keep their order),
\* and appends exactly one line, the one saying c joined.
C5_InviteWithRoom ==
    [][ \A id \in PasserbyIds :
          (Len(team) < MAX_TEAM_SIZE /\ interactWithPasserby("invite", id)) =>
              /\ Len(team') = Len(team) + 1
              /\ SubSeq(team', 1, Len(team)) = team
              /\ \E i \in 1 .. Len(passersby) :
                    /\ passersby[i].character.id = id
                    /\ team'[Len(team')] = passersby[i].character
              /\ passersby' = others(passersby, id)
              /\ Len(passersby') = Len(passersby) - 1
              /\ oneMoreLine("join") ]_vars

\* C5 witness: an invited member is the last of the team, the line of the
\* joining is the last of the log, the member is no longer a passerby and
\* another passerby is still there.
C5_Witness ==
    /\ Len(team) = TEAM_SIZE + 1
    /\ log # <<>> /\ lastLine.kind = "join"
    /\ team[Len(team)].id \notin PasserbyIds
    /\ passersby # <<>>

\* C6: once initializeGame has run the team never holds more than
\* MAX_TEAM_SIZE members.
C6_TeamCap == initialized => Len(team) <= MAX_TEAM_SIZE

\* C6 witness: the team holds MAX_TEAM_SIZE members while a passerby is there
\* and an invitation can still be made.
C6_Witness ==
    /\ Len(team) = MAX_TEAM_SIZE
    /\ passersby # <<>>
    /\ Len(log) < MaxLog

\* C7: once initializeGame has run some member of the team has the player's
\* id, and exactly one member satisfies isPlayer.
C7_PlayerInTeam ==
    initialized =>
        /\ \E i \in 1 .. Len(team) : team[i].id = player
        /\ Cardinality({i \in 1 .. Len(team) : team[i].id = player}) = 1

\* C7 witness: initializeGame ran twice, and a passerby has joined the second
\* team.
C7_Witness ==
    /\ player > 1
    /\ Len(team) > TEAM_SIZE

\* C8: interactWithPasserby on a character whose id is not in passersby
\* changes none of team, passersby, log, items, the travel flag and the
\* distance, whatever the action.
C8_AbsentTargetNoOp ==
    [][ \A id \in Targets \ PasserbyIds : \A action \in Actions :
          interactWithPasserby(action, id) =>
              UNCHANGED <<team, passersby, log, items, isTraveling, travelDistance>> ]_vars

\* C8 witness: the character spawned last was a passerby and is one no longer,
\* it did not join the team, and another passerby is there, with room in the
\* log for a line.
C8_Witness ==
    /\ initialized
    /\ nextId - 1 >= player + TEAM_SIZE
    /\ (nextId - 1) \notin PasserbyIds
    /\ (nextId - 1) \notin TeamIds
    /\ passersby # <<>>
    /\ Len(log) < MaxLog

C10_AttackRemoves ==
    [][ \A id \in PasserbyIds :
          interactWithPasserby("attack", id) =>
              /\ id \notin PasserbyIds'
              /\ passersby' = others(passersby, id)
              /\ Len(passersby') = Len(passersby) - 1
              /\ oneMoreLine("attack")
              /\ UNCHANGED <<team, items>> ]_vars

\* C10 witness: the line of an attack is the last of the log, its target is
\* neither a passerby nor a member, and another passerby is still there.
C10_Witness ==
    /\ log # <<>> /\ lastLine.kind = "attack"
    /\ \A i \in 1 .. Len(passersby) :
          generateCharacterDescription(passersby[i].character) # lastLine.about
    /\ passersby # <<>>
    /\ Len(team) = TEAM_SIZE

\* a step of toggleTravelState into resting, and one into travelling: no
\* other operation writes isTraveling
pauseStep == isTraveling /\ ~isTraveling'
resumeStep == ~isTraveling /\ isTraveling'

\* C11: a toggle from travelling to resting at time now adds
\* d = TIME_UPDATE_INTERVAL - (now mod TIME_UPDATE_INTERVAL), with
\* 0 < d <= TIME_UPDATE_INTERVAL, to the expirationTime of every passerby, and
\* adds or removes none.  now is the clock the toggle read.
C11_PauseShift ==
    [][ pauseStep =>
          LET d == TIME_UPDATE_INTERVAL - (clock' % TIME_UPDATE_INTERVAL)
          IN  /\ 0 < d /\ d <= TIME_UPDATE_INTERVAL
              /\ Len(passersby') = Len(passersby)
              /\ \A i \in 1 .. Len(passersby) :
                    /\ passersby'[i].character = passersby[i].character
                    /\ passersby'[i].expirationTime = passersby[i].expirationTime + d
                    /\ passersby'[i].expirationTime > passersby[i].expirationTime ]_vars

\* C11 witness: travel was paused exactly on a tick boundary, where d is
\* TIME_UPDATE_INTERVAL, with two passersby outstanding, and no tick came since.
C11_Witness ==
    /\ ~isTraveling
    /\ lastTick.mode = "travel"
    /\ clock % TIME_UPDATE_INTERVAL = 0
    /\ Len(passersby) = 2
    /\ \A i \in 1 .. Len(passersby) :
          passersby[i].expirationTime > currentTime + MAX_PASSERBY_DURATION

\* C12: only a toggle into resting moves an expirationTime: a toggle into
\* travelling leaves passersby as it is, a toggle into resting moves every
\* expirationTime by one shift (not by two), and no other step changes the
\* expirationTime of a passerby that stays.
C12_ShiftOnlyOnPause ==
    [][ /\ resumeStep => passersby' = passersby
        /\ pauseStep =>
              \A i \in 1 .. Len(passersby) :
                 passersby'[i].expirationTime - passersby[i].expirationTime
                     = TIME_UPDATE_INTERVAL - (clock' % TIME_UPDATE_INTERVAL)
        /\ (\E i \in 1 .. Len(passersby) : \E j \in 1 .. Len(passersby') :
                /\ passersby'[j].character.id = passersby[i].character.id
                /\ passersby'[j].expirationTime # passersby[i].expirationTime)
              => pauseStep ]_vars

\* C12 witness: the party travels again with a passerby whose expirationTime
\* was shifted during an earlier rest.
C12_Witness ==
    /\ isTraveling
    /\ \E i \in 1 .. Len(passersby) :
          passersby[i].expirationTime > currentTime + MAX_PASSERBY_DURATION

\* C13: a passerby that is present and unexpired when travel is paused is
\* not lost to expiry because of the rest: no tick removes it while the party
\* rests, and the first travelling tick after travel is resumed leaves it in
\* passersby, however long the rest lasted.  (An attack or an invitation
\* during the rest takes it out of passersby; those are not expiry.)
C13_RestDoesNotAge ==
    [][ /\ (tickStep /\ ~isTraveling) => PasserbyIds' = PasserbyIds
        /\ (tickStep /\ isTraveling) =>
              (pausedAlive \cap PasserbyIds) \subseteq PasserbyIds' ]_vars

\* v lowered by rate, not below 0; v raised by rate, not above MAX_STAT_VALUE
lowered(v, rate) == IF v - rate > 0 THEN v - rate ELSE 0
raised(v, rate) == IF v + rate < MAX_STAT_VALUE THEN v + rate ELSE MAX_STAT_VALUE

\* c after one travel decay, and c after one rest recovery
decayed(c) ==
    [c EXCEPT !.satiety = lowered(c.satiety, SATIETY_DECREASE_RATE),
              !.hydration = lowered(c.hydration, HYDRATION_DECREASE_RATE),
              !.stamina = lowered(c.stamina, STAMINA_DECREASE_RATE),
              !.mood = lowered(c.mood, MOOD_DECREASE_RATE)]
recovered(c) ==
    [c EXCEPT !.stamina = raised(c.stamina, STAMINA_INCREASE_RATE),
              !.mood = raised(c.mood, MOOD_INCREASE_RATE)]

\* the speed of the slowest member of the roster t
slowest(t) ==
    LET speed(c) == IF c.isRiding THEN c.ridingSpeed ELSE c.walkingSpeed
    IN  CHOOSE v \in {speed(t[i]) : i \in 1 .. Len(t)} :
            \A i \in 1 .. Len(t) : v <= speed(t[i])

\* items' and log' are items and log after at most one event: nothing, or
\* one more of one stack with the line of that event
oneResolution ==
    \/ items' = items /\ log' = log
    \/ /\ oneMoreLine("event")
       /\ Len(items') = Len(items)
       /\ \E k \in 1 .. Len(items) :
             /\ items'[k] = [items[k] EXCEPT !.quantity = @ + 1]
             /\ log'[Len(log')].about = <<items[k].name>>
             /\ \A j \in (1 .. Len(items)) \ {k} : items'[j] = items[j]

\* C14: a travelling tick adds the speed of the slowest member of the roster
\* to travelDistance, applies the travel decay once to every member and to
\* no passerby, resolves one event against items and log, and runs the
\* expiry and the spawn of passersby at the time now it gave currentTime.
C14_TravellingTick ==
    [][ (tickStep /\ isTraveling) =>
          /\ travelDistance' = travelDistance + slowest(team)
          /\ Len(team') = Len(team)
          /\ \A i \in 1 .. Len(team) : team'[i] = decayed(team[i])
          /\ \A i \in 1 .. Len(passersby) : \A j \in 1 .. Len(passersby') :
                passersby'[j].character.id = passersby[i].character.id
                    => passersby'[j] = passersby[i]
          /\ oneResolution
          /\ LET now == currentTime'
                 kept == SelectSeq(passersby, LAMBDA p : p.expirationTime > now)
             IN  \/ passersby' = kept
                 \/ /\ Len(passersby') = Len(kept) + 1
                    /\ SubSeq(passersby', 1, Len(kept)) = kept
                    /\ LET new == passersby'[Len(passersby')]
                       IN  /\ new.expirationTime >= now + MIN_PASSERBY_DURATION
                           /\ new.expirationTime <= now + MAX_PASSERBY_DURATION
                           /\ \A v \in Vitals(new.character) : v = MAX_STAT_VALUE ]_vars

\* C14 witness: the last travelling tick dropped a passerby, kept one and
\* spawned one, and an event of a tick wrote the last line of the log.
C14_Witness ==
    /\ lastTick.mode = "travel"
    /\ lastTick.dropped # {}
    /\ lastTick.kept >= 1
    /\ Len(passersby) = lastTick.kept + 1
    /\ log # <<>> /\ lastLine.kind = "event"
    /\ travelDistance = 3 * WALKING_SPEED

\* C15: a resting tick applies the rest recovery to every member and leaves
\* travelDistance, items, log and passersby (its entries, their order and
\* every expirationTime) as they are: it spawns and expires no passerby.
C15_RestingTick ==
    [][ (tickStep /\ ~isTraveling) =>
          /\ Len(team') = Len(team)
          /\ \A i \in 1 .. Len(team) : team'[i] = recovered(team[i])
          /\ UNCHANGED <<travelDistance, items, log, passersby>> ]_vars

\* C15 witness: after a resting tick a passerby whose expirationTime the
\* tick's time has reached is still there, with room for another, and the
\* members have travelled before.
C15_Witness ==
    /\ lastTick.mode = "rest"
    /\ ~isTraveling
    /\ Len(passersby) < MAX_PASSERBY_COUNT
    /\ \E i \in 1 .. Len(passersby) : passersby[i].expirationTime <= currentTime
    /\ \A i \in 1 .. Len(team) : team[i].satiety < MAX_STAT_VALUE

\* C16: the store starts travelling; every call of toggleTravelState flips
\* isTraveling, so that two calls in a row restore it; a step that changes
\* isTraveling is a call of toggleTravelState, and no tick, interaction or
\* selectCharacter call changes it.
C16_ModeOnlyByToggle ==
    /\ isTraveling = TRUE
    /\ [][ /\ \A d \in ToggleSteps : toggleTravelState(d) => isTraveling' = ~isTraveling
           /\ isTraveling' # isTraveling => \E d \in ToggleSteps : toggleTravelState(d)
           /\ ( \/ tickStep
                \/ \E action \in Actions, id \in Targets : interactWithPasserby(action, id)
                \/ \E id \in Selectable : selectCharacter(id) )
                  => isTraveling' = isTraveling ]_vars

\* C16 witness: travel was paused with a passerby outstanding and resumed
\* before any tick: two toggles in a row, and the party travels as before.
C16_Witness ==
    /\ isTraveling
    /\ pausedAlive # {}
    /\ lastTick.mode = "travel"
    /\ clock = currentTime

\* C17: updateCharacterWhileTraveling sets satiety to max(s - 0.1, 0),
\* hydration to max(h - 0.2, 0), stamina to max(st - 0.3, 0) and mood to
\* max(m - 0.05, 0) -- here 100, 200, 300 and 50 thousandths -- and leaves
\* the rest of the character alone: a vital with less than its rate left
\* lands on 0.  Every member of a sampled team shows it on a travelling tick.
C17_TravelDecay ==
    [][ (tickStep /\ isTraveling) =>
            /\ Len(team') = Len(team)
            /\ \A i \in 1 .. Len(team) :
                  /\ team'[i].satiety = Max(team[i].satiety - 100, 0)
                  /\ team'[i].hydration = Max(team[i].hydration - 200, 0)
                  /\ team'[i].stamina = Max(team[i].stamina - 300, 0)
                  /\ team'[i].mood = Max(team[i].mood - 50, 0)
                  /\ team'[i] = [team[i] EXCEPT !.satiety = team'[i].satiety,
                                                !.hydration = team'[i].hydration,
                                                !.stamina = team'[i].stamina,
                                                !.mood = team'[i].mood] ]_vars

\* After a travelling tick, a member whose satiety fell by exactly 0.1 from
\* the middle of the range and whose other vitals, with less than their rate
\* left, were floored at 0.
C17_Witness ==
    /\ lastTick.mode = "travel"
    /\ \E i \in 1 .. Len(team) :
          /\ team[i].satiety = 50000 - 100
          /\ team[i].hydration = 0 /\ team[i].stamina = 0 /\ team[i].mood = 0

\* C18: updateCharacterWhileResting sets stamina to min(st + 1.5, 100) and
\* mood to min(m + 0.1, 100) -- here 1500 and 100 thousandths, capped at
\* 100000 -- and leaves satiety, hydration and the rest of the character
\* alone.  Every member of a sampled team shows it on a resting tick.
C18_RestRecovery ==
    [][ (tickStep /\ ~isTraveling) =>
            /\ Len(team') = Len(team)
            /\ \A i \in 1 .. Len(team) :
                  /\ team'[i].stamina = Min(team[i].stamina + 1500, 100000)
                  /\ team'[i].mood = Min(team[i].mood + 100, 100000)
                  /\ team'[i] = [team[i] EXCEPT !.stamina = team'[i].stamina,
                                                !.mood = team'[i].mood] ]_vars

\* After a resting tick, a member whose stamina and mood, less than their
\* rate below the maximum, were capped at it while satiety stayed at the
\* middle of the range.
C18_Witness ==
    /\ lastTick.mode = "rest"
    /\ \E i \in 1 .. Len(team) :
          /\ team[i].satiety = 50000
          /\ team[i].stamina = 100000 /\ team[i].mood = 100000

\* C19: teamSpeed is the least effective speed of the members, ridingSpeed
\* for a rider and walkingSpeed for a walker; it is derived from the roster
\* as it stands, so a travelling tick adds the speed of the slowest member
\* of the team at that tick, a member who joined by invitation included.
C19_TeamSpeed ==
    /\ [](team # <<>> => teamSpeed = slowest(team))
    /\ [][ (tickStep /\ isTraveling) =>
              travelDistance' = travelDistance + slowest(team) ]_vars

\* After the first travelling tick of a team of two riders and the walker
\* they invited: the distance is the walker's speed.
C19_Witness ==
    /\ lastTick.mode = "travel"
    /\ Len(team) = 3
    /\ team[1].isRiding /\ team[2].isRiding
    /\ team[3].id = TEAM_SIZE /\ ~team[3].isRiding
    /\ travelDistance = 70

\* items and log as event 0 (the apple) and as event 1 (the sword) leave them
asEvent0 == <<items', log'>> = appleEffect(items, log)
asEvent1 == <<items', log'>> = swordEffect(items, log)

\* C20: on a travelling tick with the draw r, event 0 is applied iff
\* r < 0.3, event 1 iff 0.3 <= r < 0.35, and none iff r >= 0.35.
C20_EventBands ==
    [][ \A d \in TickSteps, rEvent \in UnitEventDraws, rSpawn \in SpawnDraws,
           g \in GenDraws(nextId), rDur \in {0, RandScale - 1} :
            (isTraveling /\ updateTime(d, rEvent, rSpawn, g, rDur)) =>
                /\ asEvent0 <=> rEvent * 1000 < 300 * RandScale
                /\ asEvent1 <=> (300 * RandScale <= rEvent * 1000
                                    /\ rEvent * 1000 < 350 * RandScale)
                /\ (items' = items /\ log' = log) <=> rEvent * 1000 >= 350 * RandScale
                /\ rEvent = drawOf(200) => asEvent0
                /\ rEvent = drawOf(320) => asEvent1
                /\ rEvent = drawOf(900) => (items' = items /\ log' = log) ]_vars

\* After a travelling tick that applied event 1 to the items and the log of
\* initializeGame: one line, of the sword.
C20_Witness ==
    /\ lastTick.mode = "travel"
    /\ log = <<eventLine("Sword")>>
    /\ travelDistance > 0

\* items and log as both events, in either order, leave them
asBothEvents ==
    \/ <<items', log'>> = swordEffect(appleEffect(items, log)[1], appleEffect(items, log)[2])
    \/ <<items', log'>> = appleEffect(swordEffect(items, log)[1], swordEffect(items, log)[2])

\* C21: a tick applies at most one event effect: a travelling tick leaves
\* items and log as event 0 does, or as event 1 does, or as they were, never
\* as both events do and never with more than one line added; a resting tick
\* leaves them as they were.
C21_AtMostOneEvent ==
    [][ /\ (tickStep /\ isTraveling) =>
              /\ asEvent0 \/ asEvent1 \/ (items' = items /\ log' = log)
              /\ ~asBothEvents
              /\ Len(log') <= Len(log) + 1
        /\ (tickStep /\ ~isTraveling) => (items' = items /\ log' = log) ]_vars

\* After a travelling tick whose draw was below both thresholds: the one line
\* of event 0, nothing of event 1.
C21_Witness ==
    /\ lastTick.mode = "travel"
    /\ \E q \in ItemDraws : <<items, log>> = appleEffect(newItems(q), <<>>)

\* the entries of ps that a tick at time now does not remove
surviving(ps, now) == SelectSeq(ps, LAMBDA p : p.expirationTime > now)

\* c is as generateCharacter makes a character: full vitals, on foot
fresh(c) ==
    /\ c.satiety = MAX_STAT_VALUE /\ c.hydration = MAX_STAT_VALUE
    /\ c.stamina = MAX_STAT_VALUE /\ c.mood = MAX_STAT_VALUE
    /\ ~c.isRiding /\ c.walkingSpeed = WALKING_SPEED

\* C22: a travelling tick at time now adds at most one passerby; the new
\* entry comes after the surviving entries, which keep their order, wraps a
\* character just generated (an id held by no member and no passerby before,
\* full vitals) and expires at now + d with MIN_PASSERBY_DURATION <= d <=
\* MAX_PASSERBY_DURATION, later than now, so the tick that made it keeps it.
C22_SpawnAppends ==
    [][ (tickStep /\ isTraveling) =>
            LET now == clock'
                kept == surviving(passersby, now)
                n == Len(kept)
            IN  /\ Len(passersby') <= n + 1
                /\ SubSeq(passersby', 1, n) = kept
                /\ Len(passersby') = n + 1 =>
                      LET new == passersby'[n + 1]
                          d == new.expirationTime - now
                      IN  /\ new.character.id \notin (TeamIds \cup PasserbyIds)
                          /\ fresh(new.character)
                          /\ MIN_PASSERBY_DURATION <= d /\ d <= MAX_PASSERBY_DURATION
                          /\ new.expirationTime > now ]_vars

\* After a travelling tick that kept one passerby and added another behind
\* it with the longest duration.
C22_Witness ==
    /\ lastTick.mode = "travel"
    /\ lastTick.kept = 1
    /\ Len(passersby) = 2
    /\ currentTime = clock
    /\ passersby[2].expirationTime = currentTime + MAX_PASSERBY_DURATION
    /\ passersby[1].expirationTime < passersby[2].expirationTime

\* C23: a passerby that has left the list never comes back, and a new
\* passerby has an id never used before.  Ids are handed out in order, so
\* the ids used before are those below nextId: every id of the team and of
\* the list is one of them, nextId never goes back, and an id below nextId
\* that is not in the list -- one that left it by expiry, attack or invite
\* among them -- is not in the list after any step.
C23_RemovalPermanent ==
    /\ []((TeamIds \cup PasserbyIds) \subseteq 1 .. (nextId - 1))
    /\ [][ /\ nextId' >= nextId
           /\ \A i \in 1 .. Len(passersby') :
                 LET id == passersby'[i].character.id
                 IN  \/ \E j \in 1 .. Len(passersby) : passersby[j].character.id = id
                     \/ id >= nextId /\ \A j \in 1 .. Len(team) : team[j].id # id ]_vars

\* A list that holds a passerby while three ids handed out to earlier
\* passersby are out of it: one joined the team, one expired at the last
\* tick, one was neither kept nor invited.
C23_Witness ==
    /\ passersby # <<>>
    /\ \E a, b, c \in (1 .. (nextId - 1)) \ PasserbyIds :
          /\ a \in TeamIds /\ a \notin {team[i].id : i \in 1 .. Min(TEAM_SIZE, Len(team))}
          /\ b \in {e.id : e \in lastTick.dropped}
          /\ c \notin TeamIds /\ c # b
          /\ \A i \in 1 .. Len(passersby) : passersby[i].character.id > c

\* s is a prefix of t
isPrefix(s, t) == Len(s) <= Len(t) /\ SubSeq(t, 1, Len(s)) = s

\* what interactWithPasserby(action, id) leaves of team and passersby, from
\* team and passersby alone
interactionOutcome(action, id) ==
    IF id \notin PasserbyIds THEN <<team, passersby>>
    ELSE LET i == CHOOSE k \in 1 .. Len(passersby) :
                      /\ passersby[k].character.id = id
                      /\ \A j \in 1 .. (k - 1) : passersby[j].character.id # id
             rest == [k \in 1 .. (Len(passersby) - 1) |->
                         IF k < i THEN passersby[k] ELSE passersby[k + 1]]
         IN  IF action = "attack" THEN <<team, rest>>
             ELSE IF action = "invite" /\ Len(team) < MAX_TEAM_SIZE
                  THEN <<Append(team, passersby[i].character), rest>>
                  ELSE <<team, passersby>>

\* C24: the log is append-only and nothing reads it: over every step the
\* old log is a prefix of the new one; what a travelling tick does to the
\* items, and the line it adds, is what triggerEvents does on an empty log
\* with the same draw; what an interaction leaves of team and passersby
\* follows from team, passersby and its arguments; a toggle and a resting
\* tick add nothing.
C24_LogAppendOnly ==
    [][ /\ isPrefix(log, log')
        /\ \A d \in TickSteps, rEvent \in UnitEventDraws, rSpawn \in SpawnDraws,
              g \in GenDraws(nextId), rDur \in {0, RandScale - 1} :
              (isTraveling /\ updateTime(d, rEvent, rSpawn, g, rDur)) =>
                  /\ items' = triggerEvents(items, <<>>, rEvent)[1]
                  /\ log' = log \o triggerEvents(items, <<>>, rEvent)[2]
        /\ \A action \in Actions, id \in Targets :
              interactWithPasserby(action, id) =>
                  <<team', passersby'>> = interactionOutcome(action, id)
        /\ ((tickStep /\ ~isTraveling) \/ isTraveling' # isTraveling) => log' = log ]_vars

\* A log of two lines, the second added by an event on a travelling tick
\* after the first was written by an interaction.
C24_Witness ==
    /\ Len(log) = 2
    /\ log[1].kind # "event"
    /\ log[2].kind = "event"
    /\ lastTick.mode = "travel"

\* C25: selectCharacter(c) leaves c selected and changes nothing else: not
\* the team, the passersby, the items, the log, the travel flag or the
\* distance; called on the character already selected, it changes nothing
\* at all, so a second call leaves the state of the first.
C25_SelectIdempotent ==
    [][ \A id \in Selectable :
            selectCharacter(id) =>
                /\ selectedCharacter' = id
                /\ UNCHANGED <<player, team, passersby, items, log, isTraveling,
                               travelDistance, currentTime, isRunning>>
                /\ selectedCharacter = id =>
                      UNCHANGED <<player, team, selectedCharacter, travelDistance,
                                  isTraveling, items, log, currentTime, isRunning,
                                  passersby>> ]_vars

\* A member who joined by invitation is selected, after a tick and with a
\* passerby still shown.
C25_Witness ==
    /\ selectedCharacter # NULL
    /\ selectedCharacter # player
    /\ selectedCharacter \in TeamIds
    /\ passersby # <<>>
    /\ travelDistance > 0

\* the characters of the team and of the passersby, now and after the step
characters == {team[i] : i \in 1 .. Len(team)}
                  \cup {passersby[i].character : i \in 1 .. Len(passersby)}
charactersAfter == {team'[i] : i \in 1 .. Len(team')}
                       \cup {passersby'[i].character : i \in 1 .. Len(passersby')}

\* c is as the claim says generateCharacter leaves a character
wellGenerated(c) ==
    /\ c.satiety = MAX_STAT_VALUE /\ c.hydration = MAX_STAT_VALUE
    /\ c.stamina = MAX_STAT_VALUE /\ c.mood = MAX_STAT_VALUE
    /\ c.isRiding = FALSE
    /\ c.walkingSpeed = WALKING_SPEED
    /\ c.ridingSpeed \in MIN_RIDING_SPEED .. MAX_RIDING_SPEED
    /\ c.age \in MIN_AGE .. MAX_AGE
    /\ \A a \in {c.strength, c.agility, c.charisma, c.intelligence} :
          a \in MIN_ATTRIBUTE .. MAX_ATTRIBUTE

\* C26: every character generateCharacter makes, for the team or as a
\* passerby, starts with the four vitals at MAX_STAT_VALUE, on foot, with
\* walkingSpeed = WALKING_SPEED and with ridingSpeed, age and the four
\* attributes whole numbers within their ranges, bounds included.  Checked
\* on each character that a step brings into the team or the passersby.
C26_GeneratedInRange ==
    [][ \A c \in charactersAfter :
            c.id \notin {b.id : b \in characters} => wellGenerated(c) ]_vars

\* A team with a member at the greatest age, riding speed and attributes and
\* a member at the least, and a passerby strictly between the bounds.
C26_Witness ==
    /\ \E i \in 1 .. Len(team) :
          /\ team[i].age = MAX_AGE /\ team[i].ridingSpeed = MAX_RIDING_SPEED
          /\ team[i].strength = MAX_ATTRIBUTE /\ team[i].intelligence = MAX_ATTRIBUTE
    /\ \E i \in 1 .. Len(team) :
          /\ team[i].age = MIN_AGE /\ team[i].ridingSpeed = MIN_RIDING_SPEED
          /\ team[i].strength = MIN_ATTRIBUTE /\ team[i].intelligence = MIN_ATTRIBUTE
    /\ \E i \in 1 .. Len(passersby) :
          LET c == passersby[i].character
          IN  /\ MIN_AGE < c.age /\ c.age < MAX_AGE
              /\ MIN_RIDING_SPEED < c.ridingSpeed /\ c.ridingSpeed < MAX_RIDING_SPEED
              /\ MIN_ATTRIBUTE < c.agility /\ c.agility < MAX_ATTRIBUTE

\* c2, the character c after a step, has every field of c; after a tick,
\* every field but the four vitals: id, name, gender, age, the attributes,
\* the two speeds and isRiding
sameCharacter(c, c2) ==
    IF tickStep
    THEN c2 = [c EXCEPT !.satiety = c2.satiety, !.hydration = c2.hydration,
                        !.stamina = c2.stamina, !.mood = c2.mood]
    ELSE c2 = c

\* C27: no step changes the id, name, gender, age, attributes or speeds of a
\* character that is in the team or the passersby before and after it; a
\* tick changes nothing of a character but its vitals, and a step that is
\* not a tick -- a toggle, an interaction, a selection -- changes no field
\* of any character, an invited one keeping every field on its way into the
\* team.
C27_IdentityImmutable ==
    [][ /\ \/ team' = team
           \/ \A i \in 1 .. Len(team), j \in 1 .. Len(team') :
                 team[i].id = team'[j].id => sameCharacter(team[i], team'[j])
        /\ \/ passersby' = passersby
           \/ \A i \in 1 .. Len(passersby), j \in 1 .. Len(passersby') :
                 passersby[i].character.id = passersby'[j].character.id =>
                     sameCharacter(passersby[i].character, passersby'[j].character)
        /\ \A i \in 1 .. Len(passersby), j \in 1 .. Len(team') :
              passersby[i].character.id = team'[j].id =>
                  sameCharacter(passersby[i].character, team'[j])
        /\ \A i \in 1 .. Len(team), j \in 1 .. Len(passersby') :
              team[i].id = passersby'[j].character.id =>
                  sameCharacter(team[i], passersby'[j].character) ]_vars

\* A member who was spawned as a passerby, invited, and has since gone
\* through a travelling and a resting tick.
C27_Witness ==
    /\ lastTick.mode = "rest"
    /\ Len(team) > TEAM_SIZE
    /\ team[Len(team)].satiety < MAX_STAT_VALUE
    /\ team[Len(team)].stamina = MAX_STAT_VALUE
    /\ team[Len(team)].id \notin PasserbyIds

\* C28: the ids of the characters of the team and of the passersby are
\* pairwise distinct: no id twice in the team, none twice in the passersby,
\* none in both -- an invitee is out of the passersby in the state in which
\* it is in the team.
C28_IdsDistinct ==
    /\ \A i, j \in 1 .. Len(team) : team[i].id = team[j].id => i = j
    /\ \A i, j \in 1 .. Len(passersby) :
          passersby[i].character.id = passersby[j].character.id => i = j
    /\ TeamIds \cap PasserbyIds = {}

\* Right after a successful invite, with another passerby still in the list.
C28_Witness ==
    /\ log # <<>>
    /\ lastLine.kind = "join"
    /\ Len(team) = TEAM_SIZE + 1
    /\ lastLine = joinLine(team[Len(team)])
    /\ passersby # <<>>

\* C29: no character ever rides, so once initializeGame has run the team is
\* not empty and teamSpeed is WALKING_SPEED, 70; the distance starts at 0,
\* a travelling tick adds exactly 70 to it and no other step changes it, so
\* it is 70 times the number of travelling ticks made, never goes down and
\* is never reset, a second initializeGame included.
C29_WalkingPace ==
    /\ travelDistance = 0
    /\ [](/\ \A c \in characters : ~c.isRiding
          /\ initialized => (team # <<>> /\ teamSpeed = 70 /\ WALKING_SPEED = 70)
          /\ travelDistance % 70 = 0)
    /\ [][ /\ (tickStep /\ isTraveling) => travelDistance' = travelDistance + 70
           /\ ~(tickStep /\ isTraveling) => travelDistance' = travelDistance ]_vars

\* Two travelling ticks and then a resting tick have been made, and
\* initializeGame has run a second time: the distance is 140.
C29_Witness ==
    /\ travelDistance = 2 * 70
    /\ clock = 3 * MIN_PASSERBY_DURATION
    /\ lastTick.mode = "rest"
    /\ player > 1

\* C30: the satiety and the hydration of a team member never go up: over
\* every step, a character that is in the team before and after it has at
\* most the satiety and the hydration it had -- lower after a travelling
\* tick unless already 0, the same after a resting tick -- and one at 0
\* stays at 0.
C30_HungerOnlyGrows ==
    [][ \A i \in 1 .. Len(team), j \in 1 .. Len(team') :
            team[i].id = team'[j].id =>
                /\ team'[j].satiety <= team[i].satiety
                /\ team'[j].hydration <= team[i].hydration
                /\ team[i].satiety = 0 => team'[j].satiety = 0
                /\ team[i].hydration = 0 => team'[j].hydration = 0
                /\ (tickStep /\ isTraveling /\ team[i].satiety > 0) =>
                      team'[j].satiety < team[i].satiety
                /\ (tickStep /\ isTraveling /\ team[i].hydration > 0) =>
                      team'[j].hydration < team[i].hydration
                /\ (tickStep /\ ~isTraveling) =>
                      /\ team'[j].satiety = team[i].satiety
                      /\ team'[j].hydration = team[i].hydration ]_vars

\* Late in a journey, after a travelling tick and then a resting tick: the
\* player's satiety and hydration are at 0, and those of a member who joined
\* one travelling tick ago are one rate below the maximum, while the stamina
\* of both has risen.
C30_Witness ==
    /\ lastTick.mode = "rest"
    /\ team[1].id = player
    /\ team[1].satiety = 0 /\ team[1].hydration = 0 /\ team[1].stamina > 0
    /\ Len(team) > TEAM_SIZE
    /\ team[Len(team)].satiety = MAX_STAT_VALUE - SATIETY_DECREASE_RATE
    /\ team[Len(team)].hydration = MAX_STAT_VALUE - HYDRATION_DECREASE_RATE
    /\ team[Len(team)].stamina = MAX_STAT_VALUE

\* every member has all four vitals at 0; every member has stamina and mood
\* at the maximum
allSpent == \A i \in 1 .. Len(team) : Vitals(team[i]) = {0}
allRested ==
    \A i \in 1 .. Len(team) :
        team[i].stamina = MAX_STAT_VALUE /\ team[i].mood = MAX_STAT_VALUE

\* C31: with ticks that keep firing, a party that stays travelling comes to
\* have every member's satiety, hydration, stamina and mood at 0 and keeps
\* them there, and a party that stays resting comes to have every member's
\* stamina and mood at 100 and keeps them there.  The clock of the model
\* stops at MaxTime, so the vitals start within two ticks of the bound.
C31_VitalsConverge ==
    /\ ([]isTraveling) => <>[]allSpent
    /\ ([]~isTraveling) => <>[]allRested

\* Two travelling ticks on, with nothing else in between, a member who
\* started two rates above the floor is at 0 in all four vitals.
C31_Witness ==
    /\ isTraveling
    /\ lastTick.mode = "travel"
    /\ travelDistance = 2 * WALKING_SPEED
    /\ clock = 2 * MIN_PASSERBY_DURATION
    /\ allSpent

\* C32: the expirationTime of a passerby never goes down while it is in the
\* list: over a step that keeps it there, a toggle into resting makes it
\* strictly greater, by at most TIME_UPDATE_INTERVAL, and every other step --
\* a tick, a talk or another interaction, a toggle into travelling -- leaves
\* it as it was; so each entry into resting adds to the lifetime.
C32_ExpirationMonotone ==
    [][ \A i \in 1 .. Len(passersby), j \in 1 .. Len(passersby') :
            passersby[i].character.id = passersby'[j].character.id =>
                LET before == passersby[i].expirationTime
                    after == passersby'[j].expirationTime
                IN  /\ after >= before
                    /\ pauseStep => (after > before /\ after <= before + TIME_UPDATE_INTERVAL)
                    /\ ~pauseStep => after = before ]_vars

\* A passerby of the shortest duration, spawned at the first tick, that has
\* been through two entries into resting with a resting tick in between: it
\* expires a whole TIME_UPDATE_INTERVAL and a half later than it was to.
C32_Witness ==
    /\ ~isTraveling
    /\ lastTick.mode = "rest"
    /\ clock = 2 * MIN_PASSERBY_DURATION
    /\ \E i \in 1 .. Len(passersby) :
          passersby[i].expirationTime
              = 2 * MIN_PASSERBY_DURATION + TIME_UPDATE_INTERVAL + (TIME_UPDATE_INTERVAL \div 2)

\* every vital of c is at MAX_STAT_VALUE
fullVitals(c) == Vitals(c) = {MAX_STAT_VALUE}

\* C33: the vitals of a character do not change while it is a passerby:
\* every passerby has its four vitals at MAX_STAT_VALUE, as generated, after
\* any number of ticks in either mode; a passerby invited with success is in
\* the team with all four still at MAX_STAT_VALUE, and the next travelling
\* tick is the first to lower them.
C33_PasserbyVitalsFrozen ==
    /\ [](\A i \in 1 .. Len(passersby) : fullVitals(passersby[i].character))
    /\ [][ /\ \A id \in PasserbyIds :
                 (interactWithPasserby("invite", id) /\ Len(team') > Len(team)) =>
                     (team'[Len(team')].id = id /\ fullVitals(team'[Len(team')]))
           /\ \A i \in 1 .. Len(team') :
                 (tickStep /\ isTraveling /\ fullVitals(team[i])) =>
                     /\ team'[i].satiety = MAX_STAT_VALUE - SATIETY_DECREASE_RATE
                     /\ team'[i].mood = MAX_STAT_VALUE - MOOD_DECREASE_RATE ]_vars

\* A member who stood through a travelling tick as a passerby and was then
\* invited is in a team whose first members that tick has worn; the member
\* is still at full vitals.
C33_Witness ==
    /\ Len(team) > TEAM_SIZE
    /\ log # <<>> /\ lastLine = joinLine(team[Len(team)])
    /\ fullVitals(team[Len(team)])
    /\ team[1].satiety <= MAX_STAT_VALUE - 2 * SATIETY_DECREASE_RATE

\* the ids of the members of t, in order
roster(t) == [i \in 1 .. Len(t) |-> t[i].id]

\* C34: between two calls of initializeGame no member leaves the team: over
\* a step that keeps the player, the members are the first members after it.
\* Once the team holds MAX_TEAM_SIZE members it holds them until the next
\* initializeGame, every invite of a present passerby adds the line saying
\* the team is full and leaves the passerby where it is, and a passerby goes
\* from the list only at a tick, by expiry, or with the line of an attack.
C34_TeamNeverShrinks ==
    [][ /\ player' = player =>
              /\ Len(team) <= Len(team')
              /\ \A i \in 1 .. Len(team) : team'[i].id = team[i].id
        /\ (player' = player /\ Len(team) = MAX_TEAM_SIZE) =>
              /\ roster(team') = roster(team)
              /\ \A id \in PasserbyIds :
                    interactWithPasserby("invite", id) =>
                        (log' = Append(log, fullLine) /\ passersby' = passersby)
              /\ \A id \in PasserbyIds \ PasserbyIds' :
                    \/ tickStep /\ isTraveling
                    \/ /\ oneMoreLine("attack")
                       /\ \E i \in 1 .. Len(passersby) :
                             /\ passersby[i].character.id = id
                             /\ log'[Len(log')] = attackLine(passersby[i].character) ]_vars

\* The team is full, an invite has just been refused, and the passerby who
\* asked is still in the list.
C34_Witness ==
    /\ Len(team) = MAX_TEAM_SIZE
    /\ Len(log) >= 2
    /\ lastLine = fullLine
    /\ log[Len(log) - 1].kind = "join"
    /\ passersby # <<>>

\* its is the three stacks initializeGame makes, each quantity in its range
threeStacks(its) ==
    /\ Len(its) = 3
    /\ its[1].name = "Apple" /\ its[2].name = "Sword" /\ its[3].name = "Wooden Shield"
    /\ its[1].quantity \in MIN_INITIAL_APPLES .. MAX_INITIAL_APPLES
    /\ its[2].quantity \in MIN_INITIAL_SWORDS .. MAX_INITIAL_SWORDS
    /\ its[3].quantity \in MIN_INITIAL_SHIELDS .. MAX_INITIAL_SHIELDS

\* C35: initializeGame leaves a team of exactly TEAM_SIZE characters, the
\* player first, the player selected, and the three stacks Apple, Sword and
\* Wooden Shield with quantities within their ranges; it replaces the
\* player, the team, the selection and the items and leaves travelDistance,
\* isTraveling, the log and the passersby as they were, on a later call too.
C35_InitializeGameFrame ==
    [][ \A a \in GenSamples, q \in ItemSamples :
            initializeGame(<<a, GenLo, GenHi, a>>, q) =>
                /\ Len(team') = TEAM_SIZE
                /\ team'[1].id = player'
                /\ selectedCharacter' = player'
                /\ threeStacks(items')
                /\ \A i \in 1 .. TEAM_SIZE : team'[i].id \notin TeamIds
                /\ UNCHANGED <<travelDistance, isTraveling, log, passersby>> ]_vars

\* initializeGame has run on a store that travels, with distance behind it,
\* a line in the log and a passerby in the list: all four are still there,
\* and the stacks are at the greatest quantities.
C35_Witness ==
    /\ player = TEAM_SIZE + 1
    /\ Len(team) = TEAM_SIZE /\ team[1].id = player /\ selectedCharacter = player
    /\ isTraveling
    /\ travelDistance > 0
    /\ log # <<>>
    /\ passersby # <<>>
    /\ items[1].quantity = MAX_INITIAL_APPLES
    /\ items[2].quantity = MAX_INITIAL_SWORDS
    /\ items[3].quantity = MAX_INITIAL_SHIELDS

\* C36: while the component is mounted at most one interval that drives
\* updateTime is scheduled, and isRunning is true exactly when one is,
\* whatever toggleTimer calls there were; no tick is applied while the clock
\* is paused; toggling travel and rest neither schedules nor clears an
\* interval.
C36_OneTimer ==
    /\ [](app.mounted => /\ Cardinality(app.intervals) <= 1
                         /\ isRunning <=> app.intervals # {})
    /\ [][ /\ tickStep => isRunning
           /\ isTraveling' # isTraveling => UNCHANGED <<app, isRunning>> ]_vars

\* the clock was paused and started again, the second interval is the one
\* scheduled, and it has fired while the team rests
C36_Witness ==
    /\ app.mounted
    /\ isRunning
    /\ app.timer = 2 /\ app.intervals = {2}
    /\ ~isTraveling
    /\ lastTick.mode = "rest"
    /\ currentTime = 2 * MIN_PASSERBY_DURATION

\* the animation of the map: what startSimulation sets up and the frame
\* the window holds for it
animation(m) ==
    <<m.isSimulating, m.simulatedPosition, m.simulationFrame, m.simulationStartTotal,
      m.simulationTargetTotal, m.simulationFinalTime, m.simulationStartCoord,
      m.simulationTargetCoord, m.frames, m.nextFrame, m.elapsed>>

\* C37: a moveTo call made while isSimulating sends no move request and
\* changes neither the player's location, nor the selection, nor the time
\* state, nor the animation that runs: it only sets the error message.
C37_MoveToWhileSimulating ==
    [][ \A name \in Cities :
          (mapView.isSimulating /\ moveTo(name)) =>
              /\ mapView'.moves = mapView.moves
              /\ mapView'.loads = mapView.loads
              /\ mapView'.player = mapView.player
              /\ mapView'.selected = mapView.selected
              /\ mapView'.timeState = mapView.timeState
              /\ mapView'.displayTime = mapView.displayTime
              /\ animation(mapView') = animation(mapView)
              /\ mapView'.error = busyMessage ]_vars

\* moveTo was called half way through an animation: the message is set, the
\* animation runs on and no request waits
C37_Witness ==
    /\ mapView.error = busyMessage
    /\ mapView.isSimulating
    /\ mapView.elapsed = 1
    /\ mapView.simulatedPosition = [x |-> 2, y |-> 1]
    /\ mapView.moves = EmptyBag

\* startSimulation has run: a move request is answered and an animation
\* starts at its beginning
started == /\ mapView'.moves # mapView.moves
           /\ mapView'.isSimulating
           /\ mapView'.nextFrame = mapView.nextFrame + 1
           /\ mapView'.elapsed = 0
\* finishSimulation has run: the animation ends and loadPlayer is called
finished == mapView.isSimulating /\ ~mapView'.isSimulating /\ mapView'.loads = mapView.loads + 1
\* nothing of an animation is left in m
still(m) == ~m.isSimulating /\ m.simulatedPosition = NoCoord /\ m.frames = {}
\* a response of loadPlayer or loadTime is taken
loaded == mapView'.loads = mapView.loads - 1 \/ mapView'.at # mapView.at

\* C38: at most one animation is active and at most one frame callback
\* waits: startSimulation cancels the animation before it; after
\* finishSimulation or cancelSimulation isSimulating is false,
\* simulatedPosition is null and no frame waits; when the animation
\* completes displayTime is the end time handed to startSimulation; while an
\* animation runs syncDisplayTime does not change displayTime.
C38_OneAnimation ==
    /\ [](/\ Cardinality(mapView.frames) <= 1
          /\ mapView.isSimulating => mapView.frames = {mapView.simulationFrame}
          /\ ~mapView.isSimulating => still(mapView) /\ mapView.simulationFrame = NoHandle
          /\ still(cancelSimulation(mapView))
          /\ still(finishSimulation(mapView)))
    /\ [][ /\ started => /\ mapView.simulationFrame \notin mapView'.frames
                         /\ mapView'.simulationFinalTime = mapView'.timeState
           /\ (mapView.isSimulating /\ mapView'.isSimulating /\ ~started) =>
                mapView'.simulationFinalTime = mapView.simulationFinalTime
           /\ finished => still(mapView') /\ mapView'.displayTime = mapView.simulationFinalTime
           /\ (mapView.isSimulating /\ loaded) =>
                mapView'.displayTime = mapView.displayTime ]_vars

\* an animation from one time to another has completed over three frames
\* after the server had reported another time than its end: the time shown
\* is its end time, which no frame before the last and no syncDisplayTime
\* shows, and nothing of the animation is left
C38_Witness ==
    /\ mapView.nextFrame > 3
    /\ mapView.loads > 0
    /\ mapView.simulationStartTotal # mapView.simulationTargetTotal
    /\ mapView.displayTime = deriveTimeStatus(mapView.simulationTargetTotal)
    /\ mapView.timeState # mapView.displayTime
    /\ mapView.error = ""
    /\ still(mapView)

\* C39: handleRest is not re-entrant: while resting is true, that is while a
\* handleRest call waits, or while no team is loaded, a further call sends
\* no request; resting is false again once the call has settled, whether
\* teamRest succeeded or failed; teamUpdated is emitted only after a
\* successful teamRest followed by the reload of the team.
C39_HandleRestNotReentrant ==
    /\ [](/\ Len(teamPanel.calls) <= 1
          /\ teamPanel.resting <=> teamPanel.calls # <<>>
          /\ teamPanel.emitted <= teamPanel.rested)
    /\ [][ /\ (handleRest /\ (teamPanel.resting \/ teamPanel.team = NoTeam)) =>
                UNCHANGED teamPanel
           /\ teamPanel'.sent # teamPanel.sent =>
                ~teamPanel.resting /\ teamPanel.team # NoTeam /\ teamPanel'.resting
           /\ Len(teamPanel'.calls) < Len(teamPanel.calls) => ~teamPanel'.resting
           /\ teamPanel'.emitted # teamPanel.emitted =>
                /\ teamPanel.calls = <<"loadTeam">>
                /\ teamPanel'.calls = <<>>
                /\ ~teamPanel'.resting ]_vars

\* a rest has failed and a second one has succeeded: its reload has shown
\* the rested team, teamUpdated was emitted once and resting is false again
C39_Witness ==
    /\ teamPanel.sent = 2
    /\ teamPanel.rested = 1
    /\ teamPanel.emitted = 1
    /\ teamPanel.team = teamOf(1)
    /\ ~teamPanel.resting
    /\ teamPanel.calls = <<>>

====
